---- MODULE Spec2Model ----
(***************************************************************************)
(* Model of the entrypoint framework: the supervisor (test/entrypoint,     *)
(* Entrypoint) composed with the tarred configuration handler               *)
(* (ConfigurationHandlerBase with its worker goroutine and the             *)
(* updateTarredConfig function), the activation handler, the file watcher  *)
(* latch and the CmdProcessHandler with its child process.                 *)
(***************************************************************************)
EXTENDS Integers, Sequences, FiniteSets, TLC

(* ------------------------------ bounds -------------------------------- *)
\* number of inputs the environment gives after boot: archives moved in,
\* creations or removals of the activation file, failures of a filesystem
\* operation, of a watcher, of a spawn or of a process handler construction
MaxEvents == 2
\* capacity of the handlers' buffered channels (global.DefaultChanBuffSize)
DefaultChanBuffSize == 2

(* --------------------------- program constants ------------------------ *)
inactive == FALSE
active == TRUE

notReady == "notReady"
changed == "changed"
updated == "updated"
applied == "applied"

dead == "dead"
changing == "changing"
alive == "alive"

Deleted == 1
Modified == 2
Created == 3

oldConfigDirFlag == 1
newConfigDirFlag == 2

\* file names of a configuration bundle; content 0 means "no such file"
Files == {"fa", "fb"}
NoFiles == [f \in Files |-> 0]
\* a map[string]Modification: 0 means "no entry for this name"
NoChanges == [f \in Files |-> 0]
MapLen(m) == Cardinality({f \in Files : m[f] # 0})
\* the archives a writer may move in (content stands for bytes and mode)
Configs == <<[fa |-> 1, fb |-> 1], [fa |-> 0, fb |-> 2]>>
ConfigIds == 1..Len(Configs)

VARIABLES
    \* Entrypoint
    state, wasConfigChanged, configUpdatesRunning,
    supPc,          \* position of main's loop
    calls,          \* handler methods called by the latest handleStatusChange
    \* e.process (CmdProcessHandler) and the children
    process,        \* "ok" or "nil": the value held by e.process
    child,          \* goroutine/child of the current handler
    startedCh, endedCh,
    orphans,        \* children of replaced handlers that have not exited yet
    \* e.configuration (ConfigurationHandlerBase)
    isOpen, wasChanged, isUpdateRunning,
    wasChangedCh, updateStartCh, updateResultCh,
    closedChs,      \* the channels that have been closed
    cfgPc,          \* position of listenToEvents
    todo, changedFiles, updErr,   \* locals of the running update function
    \* file watcher latch of the configuration archive
    ntfTok, ntfVal,
    \* filesystem
    archive, hardlink, newDir, oldDir,
    oldBefore,      \* history: the old-config dir as the running update found it
    \* activation handler, its file and the latch of its file watcher
    actFile, actTok, actVal, actCh,
    actIsOpen,      \* a.isOpen
    actClosed,      \* the channels of the activation handler that are closed
    actPc,          \* position of listenActivationChanges
    actPending,     \* the event a waiting send of handle holds
    \* number of environment inputs so far
    events,
    \* history: what happened to the handler's Update() since the latest
    \* successful changed event (see UpdateHistory)
    hist

supVars == <<state, wasConfigChanged, configUpdatesRunning, supPc, calls>>
procVars == <<process, child, startedCh, endedCh, orphans>>
cfgVars == <<isOpen, closedChs, wasChanged, isUpdateRunning, wasChangedCh, updateStartCh,
             updateResultCh, cfgPc, todo, changedFiles, updErr>>
ntfVars == <<ntfTok, ntfVal>>
fsVars == <<archive, hardlink, newDir, oldDir, oldBefore>>
actVars == <<actFile, actTok, actVal, actCh, actIsOpen, actClosed, actPc, actPending>>
envVars == <<events>>
vars == <<supVars, procVars, cfgVars, ntfVars, fsVars, actVars, envVars, hist>>

(* ------------------------------- Init --------------------------------- *)
\* mutant of BootChanged: the constructor does not handle the archive it finds
BootChanged_Silent(boot) == <<>>

\* what newConfigurationHandlerBase leaves on wasChangedCh: the value sent by
\* c.handle(new(filesystem.WatcherEvent)) when fs.DoesExist(newConfigPath)
BootChanged(boot) == IF boot = "none" THEN <<>> ELSE <<boot>>

\* State after main created the directories and initialize() returned nil:
\* newFileActivationHandler sent the initial event, newConfigurationHandlerBase
\* handled an archive that was already present (boot is the value its handle
\* sent: "nil" after a hardlink, "err" after a failed one, "none" when there
\* was no archive).
Init ==
    /\ state = [activation |-> inactive, configuration |-> notReady, process |-> dead]
    /\ wasConfigChanged = FALSE
    /\ configUpdatesRunning = 0
    /\ supPc = "event"
    /\ calls = <<>>
    /\ process = "ok"
    /\ child = "idle"
    /\ startedCh = <<>>
    /\ endedCh = <<>>
    /\ orphans = 0
    /\ isOpen = TRUE
    /\ closedChs = {}
    /\ isUpdateRunning = FALSE
    /\ \E boot \in {"none", "nil", "err"} :
        /\ archive = (IF boot = "none" THEN 0 ELSE 1)
        /\ hardlink = (IF boot = "nil" THEN 1 ELSE 0)
        /\ wasChanged = (boot = "nil")
        /\ wasChangedCh = BootChanged(boot)
        /\ events = (IF boot = "err" THEN 1 ELSE 0)
    /\ updateStartCh = 0
    /\ updateResultCh = <<>>
    /\ cfgPc = "select"
    /\ todo = {}
    /\ changedFiles = NoChanges
    /\ updErr = FALSE
    /\ ntfTok = 0
    /\ ntfVal = "none"
    /\ newDir = NoFiles
    /\ oldDir = NoFiles
    /\ oldBefore = NoFiles
    /\ actFile \in BOOLEAN
    /\ actTok = 0
    /\ actVal = "none"
    /\ actCh = <<[State |-> actFile, Error |-> FALSE]>>
    /\ actIsOpen = TRUE
    /\ actClosed = {}
    /\ actPc = "select"
    /\ actPending = <<>>
    /\ hist = "none"

\* main is running: it has not panicked (after a panic the deferred tearDown
\* has run and the goroutines of the handlers go on until the process exits)
Running == supPc # "panicked"

(* ------------------- Entrypoint.changeStateByEvent -------------------- *)
\* select arm: ev := <-e.activation.GetWasChangedChannel()
activationWasChanged ==
    /\ supPc = "event" /\ process = "ok"
    /\ actIsOpen /\ actCh # <<>>
    /\ LET ev == Head(actCh) IN
        /\ actCh' = Tail(actCh)
        /\ state' = IF ev.Error THEN state ELSE [state EXCEPT !.activation = ev.State]
    /\ supPc' = "handle"
    /\ UNCHANGED <<wasConfigChanged, configUpdatesRunning, calls, procVars, cfgVars,
                   ntfVars, fsVars, actFile, actTok, actVal, actIsOpen, actClosed, actPc,
                   actPending, envVars, hist>>

\* select arm: ev := <-e.configuration.GetWasChangedChannel()
configurationWasChanged ==
    /\ supPc = "event" /\ process = "ok"
    /\ isOpen /\ wasChangedCh # <<>>
    /\ LET ev == Head(wasChangedCh) IN
        /\ wasChangedCh' = Tail(wasChangedCh)
        /\ state' = IF ev = "nil" THEN [state EXCEPT !.configuration = changed] ELSE state
    /\ supPc' = "handle"
    /\ UNCHANGED <<wasConfigChanged, configUpdatesRunning, calls, procVars,
                   isOpen, closedChs, wasChanged, isUpdateRunning, updateStartCh, updateResultCh,
                   cfgPc, todo, changedFiles, updErr, ntfVars, fsVars, actVars, envVars, hist>>

\* mutants of UpdatedConfiguration: the counter is not consulted; the
\* wasConfigChanged flag is not consulted
UpdatedConfiguration_IgnoreCounter(c, n, w) == IF w THEN updated ELSE applied

\* mutant of UpdatedWasChanged: changed files do not set the flag
UpdatedWasChanged_Never(ev, w) == w

\* mutant of UpdatedCounter: a result ends every update that is counted
UpdatedCounter_Reset(n) == 0

\* the body of configurationWasUpdated for a result without error
UpdatedCounter(n) == n - 1
UpdatedWasChanged(ev, w) == IF MapLen(ev.ChangedFiles) > 0 THEN TRUE ELSE w
UpdatedConfiguration(c, n, w) ==
    IF n = 0 THEN (IF w THEN updated ELSE applied) ELSE c

\* select arm: ev := <-e.configuration.GetUpdateResultChannel()
configurationWasUpdated ==
    /\ supPc = "event" /\ process = "ok"
    /\ isOpen /\ updateResultCh # <<>>
    /\ LET ev == Head(updateResultCh) IN
        /\ updateResultCh' = Tail(updateResultCh)
        /\ IF ev.Err
             THEN UNCHANGED <<state, wasConfigChanged, configUpdatesRunning>>
             ELSE /\ configUpdatesRunning' = UpdatedCounter(configUpdatesRunning)
                  /\ wasConfigChanged' = UpdatedWasChanged(ev, wasConfigChanged)
                  /\ state' = [state EXCEPT !.configuration =
                                  UpdatedConfiguration(@, configUpdatesRunning', wasConfigChanged')]
    /\ supPc' = "handle"
    /\ UNCHANGED <<calls, procVars, isOpen, closedChs, wasChanged, isUpdateRunning, wasChangedCh,
                   updateStartCh, cfgPc, todo, changedFiles, updErr,
                   ntfVars, fsVars, actVars, envVars, hist>>

\* mutants of the body of processWasStarted: updated is not moved to
\* applied; the flag is reset by every start
StartedConfiguration_Keep(c) == c
StartedWasChanged_AlwaysReset(c, w) == FALSE

\* the body of processWasStarted
StartedConfiguration(c) == IF c = updated THEN applied ELSE c
StartedWasChanged(c, w) == IF c = updated THEN FALSE ELSE w

\* mutant of processWasStarted: the error of the event is not looked at
processWasStarted_IgnoreError ==
    /\ supPc = "event" /\ process = "ok"
    /\ startedCh # <<>>
    /\ startedCh' = Tail(startedCh)
    /\ state' = [state EXCEPT !.process = alive,
                              !.configuration = StartedConfiguration(@)]
    /\ wasConfigChanged' = StartedWasChanged(state.configuration, wasConfigChanged)
    /\ supPc' = "handle"
    /\ UNCHANGED <<configUpdatesRunning, calls, process, child, endedCh, orphans,
                   cfgVars, ntfVars, fsVars, actVars, envVars, hist>>

\* select arm: ev := <-e.process.GetStartedChannel()
processWasStarted ==
    /\ supPc = "event" /\ process = "ok"
    /\ startedCh # <<>>
    /\ LET ev == Head(startedCh) IN
        /\ startedCh' = Tail(startedCh)
        /\ IF ev # "nil"
             THEN UNCHANGED <<state, wasConfigChanged>>
             ELSE /\ state' = [state EXCEPT !.process = alive,
                                  !.configuration = StartedConfiguration(@)]
                  /\ wasConfigChanged' =
                        StartedWasChanged(state.configuration, wasConfigChanged)
    /\ supPc' = "handle"
    /\ UNCHANGED <<configUpdatesRunning, calls, process, child, endedCh, orphans,
                   cfgVars, ntfVars, fsVars, actVars, envVars, hist>>

\* select arm: ev := <-e.process.GetEndedChannel()
processWasEnded ==
    /\ supPc = "event" /\ process = "ok"
    /\ endedCh # <<>>
    /\ endedCh' = Tail(endedCh)
    /\ state' = [state EXCEPT !.process = dead]
    /\ supPc' = "handle"
    /\ UNCHANGED <<wasConfigChanged, configUpdatesRunning, calls, process, child,
                   startedCh, orphans, cfgVars, ntfVars, fsVars, actVars, envVars, hist>>

\* close(ch) on a set of closed channels: closing a closed channel panics,
\* which is recorded by putting "panic" in the set
CloseChan(closed, ch) == IF ch \in closed THEN closed \cup {"panic"} ELSE closed \cup {ch}

\* mutant of ActivationClose: a.isOpen is not tested
ActivationClose_Unguarded ==
    /\ actIsOpen' = FALSE
    /\ actClosed' = CloseChan(actClosed, "done")

\* FileActivationHandler.Close
ActivationClose ==
    /\ actIsOpen' = FALSE
    /\ actClosed' = IF actIsOpen THEN CloseChan(actClosed, "done") ELSE actClosed

\* ConfigurationHandlerBase.Close
Close ==
    /\ isOpen' = FALSE
    /\ closedChs' = IF isOpen THEN CloseChan(closedChs, "updateStartCh") ELSE closedChs

\* e.process holds the nil *CmdProcessHandler a failed NewProcessHandler
\* returned: evaluating e.process.GetStartedChannel() dereferences it, main
\* panics, the deferred tearDown closes the handlers and the program exits.
changeStateByEventPanic ==
    /\ supPc = "event" /\ process = "nil"
    /\ supPc' = "panicked"
    /\ ActivationClose
    /\ Close
    /\ UNCHANGED <<state, wasConfigChanged, configUpdatesRunning, calls, procVars,
                   wasChanged, isUpdateRunning, wasChangedCh, updateStartCh,
                   updateResultCh, cfgPc, todo, changedFiles, updErr,
                   ntfVars, fsVars, actFile, actTok, actVal, actCh, actPc, actPending,
                   envVars, hist>>

changeStateByEvent ==
    \/ activationWasChanged
    \/ configurationWasChanged
    \/ configurationWasUpdated
    \/ processWasStarted
    \/ processWasEnded
    \/ changeStateByEventPanic


(* ------------------- Entrypoint.handleStatusChange -------------------- *)
\* is(s).act(...).config(...).proc(...).value()
is(s, activations, configurations, processes) ==
    /\ s.activation \in activations
    /\ s.configuration \in configurations
    /\ s.process \in processes

AnyActivation == {inactive, active}
AnyConfiguration == {notReady, changed, updated, applied}
AnyProcess == {dead, changing, alive}

\* mutants of the guards: a kill is issued, an update is requested, also
\* while process = changing
MatchKill_AnyProcess(s) == is(s, {inactive}, AnyConfiguration, {changing, alive})
MatchUpdate_AnyProcess(s) == is(s, AnyActivation, {changed}, AnyProcess)
\* mutant of the restart guard: an applied configuration restarts too
MatchRestart_AnyCommitted(s) == is(s, {active}, {applied, updated}, {alive})

\* mutant of the start guard: the payload is started while inactive too
MatchStart_AnyActivation(s) == is(s, AnyActivation, {applied, updated}, {dead})

\* the four guards of handleStatusChange, in the order of the else-if chain
MatchStart(s) == is(s, {active}, {applied, updated}, {dead})
MatchRestart(s) == is(s, {active}, {updated}, {alive})
MatchKill(s) == is(s, {inactive}, AnyConfiguration, {alive})
MatchUpdate(s) == is(s, AnyActivation, {changed}, {dead, alive})

\* mutant of Rule: the update request is tried before the kill
Rule_UpdateFirst(s) ==
    IF MatchStart(s) THEN 1
    ELSE IF MatchRestart(s) THEN 2
    ELSE IF MatchUpdate(s) THEN 4
    ELSE IF MatchKill(s) THEN 3
    ELSE 5

Rule(s) ==
    IF MatchStart(s) THEN 1
    ELSE IF MatchRestart(s) THEN 2
    ELSE IF MatchKill(s) THEN 3
    ELSE IF MatchUpdate(s) THEN 4
    ELSE 5

Call(op, ok, proc) == [op |-> op, ok |-> ok, proc |-> proc]

\* results hc.NewProcessHandler(cmd(), log) can give
CtorResults == {TRUE} \cup (IF events < MaxEvents THEN {FALSE} ELSE {})

\* results CmdProcessHandler.Signal can give: an error when cmd.Process is nil
\* or the process has been waited for.  While the goroutine of Start is still
\* writing cmd.Process the read races with it: a read that finds it nil gives
\* the error, a read that finds it set is a Signal taken after cmdStart
SignalResults(c) ==
    IF c \in {"running", "killed"} THEN {TRUE}
    ELSE {FALSE}

\* children that have been or will be spawned and have not exited
Living(c) == c \in {"starting", "running", "killed"}

\* Entrypoint.start, run when the triple is st, the current child is c and
\* the step has already made the calls cs
start(ok, st, c, cs) ==
    /\ events' = IF ok THEN events ELSE events + 1
    /\ orphans' = orphans + (IF Living(c) THEN 1 ELSE 0)
    /\ startedCh' = <<>>
    /\ endedCh' = <<>>
    /\ IF ok
         THEN /\ process' = "ok"
              /\ child' = "starting"
              /\ state' = [st EXCEPT !.process = changing]
              /\ calls' = cs \o <<Call("NewProcessHandler", TRUE, st.process),
                                 Call("Start", TRUE, st.process)>>
         ELSE /\ process' = "nil"
              /\ child' = "idle"
              /\ state' = st
              /\ calls' = cs \o <<Call("NewProcessHandler", FALSE, st.process)>>

\* Entrypoint.kill on the current handler without a following start
kill(ok) ==
    /\ calls' = <<Call("Kill", ok, state.process)>>
    /\ child' = IF ok THEN "killed" ELSE child
    /\ state' = IF ok THEN [state EXCEPT !.process = changing] ELSE state
    /\ UNCHANGED <<process, startedCh, endedCh, orphans, events>>

\* mutant of UpdateError: isUpdateRunning is not looked at
UpdateError_NoFlightCheck ==
    IF ~isOpen THEN "closed"
    ELSE IF ~wasChanged THEN "noChange"
    ELSE IF Len(updateResultCh) > 0 THEN "resultPending"
    ELSE "nil"

\* ConfigurationHandlerBase.Update: the reason it rejects the call, or "nil"
UpdateError ==
    IF ~isOpen THEN "closed"
    ELSE IF ~wasChanged THEN "noChange"
    ELSE IF isUpdateRunning THEN "inFlight"
    ELSE IF Len(updateResultCh) > 0 THEN "resultPending"
    ELSE "nil"

\* rule 1
hscStart ==
    /\ supPc = "handle"
    /\ Rule(state) = 1
    /\ \E ok \in CtorResults : start(ok, state, child, <<>>)
    /\ supPc' = "event"
    /\ UNCHANGED <<wasConfigChanged, configUpdatesRunning, cfgVars, ntfVars, fsVars,
                   actVars, hist>>

\* mutant of hscRestart: start is called whatever Kill returned
hscRestart_StartAnyway ==
    /\ supPc = "handle"
    /\ Rule(state) = 2
    /\ \E k \in SignalResults(child) : \E ok \in CtorResults :
         start(ok, IF k THEN [state EXCEPT !.process = changing] ELSE state,
               IF k THEN "killed" ELSE child, <<Call("Kill", k, state.process)>>)
    /\ supPc' = "event"
    /\ UNCHANGED <<wasConfigChanged, configUpdatesRunning, cfgVars, ntfVars, fsVars,
                   actVars, hist>>

\* rule 2
hscRestart ==
    /\ supPc = "handle"
    /\ Rule(state) = 2
    /\ \E k \in SignalResults(child) :
         IF k
           THEN \E ok \in CtorResults :
                  start(ok, [state EXCEPT !.process = changing], "killed",
                        <<Call("Kill", TRUE, state.process)>>)
           ELSE kill(FALSE)
    /\ supPc' = "event"
    /\ UNCHANGED <<wasConfigChanged, configUpdatesRunning, cfgVars, ntfVars, fsVars,
                   actVars, hist>>

\* rule 3
hscKill ==
    /\ supPc = "handle"
    /\ Rule(state) = 3
    /\ \E k \in SignalResults(child) : kill(k)
    /\ supPc' = "event"
    /\ UNCHANGED <<wasConfigChanged, configUpdatesRunning, cfgVars, ntfVars, fsVars,
                   actVars, hist>>

\* rule 4: e.configuration.Update() up to its send on updateStartCh; a
\* rejected call returns at once and the rest of the branch runs
hscUpdate ==
    /\ supPc = "handle"
    /\ Rule(state) = 4
    /\ calls' = <<Call("Update", UpdateError = "nil", state.process)>>
    /\ hist' = (IF UpdateError = "nil" THEN "accepted" ELSE "rejected")
    /\ IF UpdateError = "nil"
         THEN /\ updateStartCh < DefaultChanBuffSize
              /\ updateStartCh' = updateStartCh + 1
              /\ supPc' = "updateStore"
              /\ UNCHANGED <<state, configUpdatesRunning>>
         ELSE /\ configUpdatesRunning' = configUpdatesRunning + 1
              /\ state' = [state EXCEPT !.configuration = notReady]
              /\ supPc' = "event"
              /\ UNCHANGED updateStartCh
    /\ UNCHANGED <<wasConfigChanged, procVars, isOpen, closedChs, wasChanged, isUpdateRunning,
                   wasChangedCh, updateResultCh, cfgPc, todo, changedFiles, updErr,
                   ntfVars, fsVars, actVars, envVars>>

\* mutant of hscUpdateAccepted: an accepted request is not counted
hscUpdateAccepted_NoCount ==
    /\ supPc = "updateStore"
    /\ isUpdateRunning' = TRUE
    /\ state' = [state EXCEPT !.configuration = notReady]
    /\ supPc' = "event"
    /\ UNCHANGED <<wasConfigChanged, configUpdatesRunning, calls, procVars, isOpen, closedChs,
                   wasChanged, wasChangedCh, updateStartCh, updateResultCh, cfgPc, todo,
                   changedFiles, updErr, ntfVars, fsVars, actVars, envVars, hist>>

\* rule 4, continued: c.isUpdateRunning.Store(true) and the return of an
\* accepted Update(), then configUpdatesRunning++ and configuration = notReady
hscUpdateAccepted ==
    /\ supPc = "updateStore"
    /\ isUpdateRunning' = TRUE
    /\ configUpdatesRunning' = configUpdatesRunning + 1
    /\ state' = [state EXCEPT !.configuration = notReady]
    /\ supPc' = "event"
    /\ UNCHANGED <<wasConfigChanged, calls, procVars, isOpen, closedChs, wasChanged, wasChangedCh,
                   updateStartCh, updateResultCh, cfgPc, todo, changedFiles, updErr,
                   ntfVars, fsVars, actVars, envVars, hist>>

\* no rule matches
hscNothing ==
    /\ supPc = "handle"
    /\ Rule(state) = 5
    /\ calls' = <<>>
    /\ supPc' = "event"
    /\ UNCHANGED <<state, wasConfigChanged, configUpdatesRunning, procVars, cfgVars,
                   ntfVars, fsVars, actVars, envVars, hist>>

handleStatusChange ==
    \/ hscStart
    \/ hscRestart
    \/ hscKill
    \/ hscUpdate
    \/ hscUpdateAccepted
    \/ hscNothing


(* ------------------ CmdProcessHandler.Start goroutine ----------------- *)
FailureResults == {FALSE} \cup (IF events < MaxEvents THEN {TRUE} ELSE {})

\* mutant of cmdStart: the goroutine goes on to Wait after a failed start
cmdStart_EndsOnFailure ==
    /\ Running
    /\ child = "starting"
    /\ \E fail \in FailureResults :
        /\ events' = IF fail THEN events + 1 ELSE events
        /\ child' = IF fail THEN "failed" ELSE "running"
        /\ startedCh' = <<IF fail THEN "err" ELSE "nil">>
        /\ endedCh' = IF fail THEN <<"err">> ELSE endedCh
    /\ UNCHANGED <<supVars, process, orphans, cfgVars, ntfVars, fsVars,
                   actVars, hist>>

\* startErr := p.cmd.Start(); p.started <- startErr
cmdStart ==
    /\ Running
    /\ child = "starting"
    /\ \E fail \in FailureResults :
        /\ events' = IF fail THEN events + 1 ELSE events
        /\ child' = IF fail THEN "failed" ELSE "running"
        /\ startedCh' = <<IF fail THEN "err" ELSE "nil">>
    /\ UNCHANGED <<supVars, process, endedCh, orphans, cfgVars, ntfVars, fsVars,
                   actVars, hist>>

\* the child exits (by itself or killed): endErr := p.cmd.Wait(); p.ended <- endErr
cmdWait ==
    /\ Running
    /\ child \in {"running", "killed"}
    /\ child' = "exited"
    /\ endedCh' = <<IF child = "killed" THEN "err" ELSE "nil">>
    /\ UNCHANGED <<supVars, process, startedCh, orphans, cfgVars, ntfVars, fsVars,
                   actVars, envVars, hist>>

\* mutant of orphanExit: the ended event of the child of a replaced handler
\* arrives on the channel the supervisor reads
orphanExit_SharedChannel ==
    /\ orphans > 0
    /\ orphans' = orphans - 1
    /\ endedCh' = <<"err">>
    /\ UNCHANGED <<supVars, process, child, startedCh, cfgVars, ntfVars,
                   fsVars, actVars, envVars, hist>>

\* a child whose handler was replaced exits; nobody receives its events
orphanExit ==
    /\ orphans > 0
    /\ orphans' = orphans - 1
    /\ UNCHANGED <<supVars, process, child, startedCh, endedCh, cfgVars, ntfVars,
                   fsVars, actVars, envVars, hist>>

(* ----------------------------- EventNotifier -------------------------- *)
\* capacity of the notification channel: make(chan struct{}, 1)
NotifyChanCap == 1

\* mutant of NotifyStore: a value that was not taken yet is kept
NotifyStore_KeepFirst(val, v) == IF val = "none" THEN v ELSE val

\* Notify, e.val.Store(&val): the latched value after Notify(v)
NotifyStore(val, v) == v

\* mutant of NotifySend: Notify stores the value and sends no token
NotifySend_Drop(tok) == tok

\* Notify, select { case e.ch <- struct{}{}: default: }: the number of
\* tokens in the channel after Notify
NotifySend(tok) == IF tok < NotifyChanCap THEN tok + 1 ELSE tok

(* ------------------------ writer and file watcher --------------------- *)
\* the fsnotify watcher is open: fw.Stop() has not been called
Watching == "fsnotify" \notin closedChs

\* a writer renames a new archive onto the watched path; the watcher
\* goroutine gets the Create event and calls notifier.Notify
archiveMovedIn ==
    /\ Running
    /\ events < MaxEvents
    /\ events' = events + 1
    /\ \E v \in ConfigIds : archive' = v
    /\ ntfVal' = IF Watching THEN NotifyStore(ntfVal, "create") ELSE ntfVal
    /\ ntfTok' = IF Watching THEN NotifySend(ntfTok) ELSE ntfTok
    /\ UNCHANGED <<supVars, procVars, cfgVars, hardlink, newDir, oldDir, oldBefore, actVars, hist>>

\* the archive is removed; the watcher goroutine gets the Remove event
archiveRemoved ==
    /\ Running
    /\ events < MaxEvents
    /\ events' = events + 1
    /\ archive # 0
    /\ archive' = 0
    /\ ntfVal' = IF Watching THEN NotifyStore(ntfVal, "remove") ELSE ntfVal
    /\ ntfTok' = IF Watching THEN NotifySend(ntfTok) ELSE ntfTok
    /\ UNCHANGED <<supVars, procVars, cfgVars, hardlink, newDir, oldDir, oldBefore, actVars, hist>>

\* fsnotify reports an error; the watcher goroutine notifies it
watcherError ==
    /\ Running
    /\ Watching
    /\ events < MaxEvents
    /\ events' = events + 1
    /\ ntfVal' = NotifyStore(ntfVal, "error")
    /\ ntfTok' = NotifySend(ntfTok)
    /\ UNCHANGED <<supVars, procVars, cfgVars, fsVars, actVars, hist>>

\* after fw.Stop() the watcher goroutine sees its fsnotify channel closed and
\* returns; the deferred notifier.Stop() closes the notification channel and
\* takes the token that may be left in it
watcherStopped ==
    /\ ~Watching
    /\ "notifyCh" \notin closedChs
    /\ closedChs' = closedChs \cup {"notifyCh"}
    /\ ntfTok' = 0
    /\ UNCHANGED <<supVars, procVars, isOpen, wasChanged, isUpdateRunning, wasChangedCh,
                   updateStartCh, updateResultCh, cfgPc, todo, changedFiles, updErr,
                   ntfVal, fsVars, actVars, envVars, hist>>

(* ------------- ConfigurationHandlerBase.listenToEvents ---------------- *)
\* case _, open := <-configChangedCh with open = true: a token is received
wake ==
    /\ cfgPc = "select"
    /\ ntfTok > 0
    /\ ntfTok' = ntfTok - 1
    /\ cfgPc' = "wake"
    /\ UNCHANGED <<supVars, procVars, isOpen, closedChs, wasChanged, isUpdateRunning,
                   wasChangedCh, updateStartCh, updateResultCh, todo, changedFiles,
                   updErr, ntfVal, fsVars, actVars, envVars, hist>>

\* what handle(ev) does before its send: the value it will send ("none" when
\* ev is nil), the hardlink it leaves and the number of failures it met.
\* fs.Hardlink deletes the old hardlink and then links: it fails when the
\* archive is gone or when one of its two calls fails.
HandleResults(ev) ==
    IF ev = "none" THEN {[msg |-> "none", hardlink |-> hardlink, cost |-> 0]}
    ELSE IF ev \in {"error", "remove"}
    THEN {[msg |-> "err", hardlink |-> hardlink, cost |-> 0]}
    ELSE (IF archive # 0
            THEN {[msg |-> "nil", hardlink |-> archive, cost |-> 0]}
            ELSE {})
         \cup (IF archive = 0 \/ events < MaxEvents
                 THEN {[msg |-> "err", hardlink |-> h,
                        cost |-> IF archive = 0 THEN 0 ELSE 1] : h \in {hardlink, 0}}
                 ELSE {})

\* history kept for the properties: "accepted" or "rejected" is the outcome
\* of the latest Update() call when no successful changed event came after
\* it; "late" when the latest successful changed event came while an accepted
\* request was waiting for the worker and no Update() was called since;
\* "none" otherwise
UpdateHistory(msg) ==
    IF msg # "nil" THEN hist
    ELSE IF updateStartCh > 0 THEN "late"
    ELSE "none"

\* mutant of handle: wasChanged is stored also when the event is an error
handle_SetOnError ==
    /\ cfgPc = "wake"
    /\ ntfVal' = "none"
    /\ \E r \in HandleResults(ntfVal) :
        /\ hardlink' = r.hardlink
        /\ events' = events + r.cost
        /\ wasChanged' = (wasChanged \/ r.msg # "none")
        /\ hist' = UpdateHistory(r.msg)
        /\ IF r.msg = "none"
             THEN cfgPc' = "select" /\ UNCHANGED wasChangedCh
             ELSE IF Len(wasChangedCh) < DefaultChanBuffSize
             THEN cfgPc' = "select" /\ wasChangedCh' = Append(wasChangedCh, r.msg)
             ELSE /\ cfgPc' = (IF r.msg = "nil" THEN "sendNil" ELSE "sendErr")
                  /\ UNCHANGED wasChangedCh
    /\ UNCHANGED <<supVars, procVars, isOpen, closedChs, isUpdateRunning, updateStartCh,
                   updateResultCh, todo, changedFiles, updErr,
                   ntfTok, archive, newDir, oldDir, oldBefore, actVars>>

\* c.handle(fw.GetEvent()); when wasChangedCh is full the send waits
handle ==
    /\ cfgPc = "wake"
    /\ ntfVal' = "none"
    /\ \E r \in HandleResults(ntfVal) :
        /\ hardlink' = r.hardlink
        /\ events' = events + r.cost
        /\ wasChanged' = (wasChanged \/ r.msg = "nil")
        /\ hist' = UpdateHistory(r.msg)
        /\ IF r.msg = "none"
             THEN cfgPc' = "select" /\ UNCHANGED wasChangedCh
             ELSE IF Len(wasChangedCh) < DefaultChanBuffSize
             THEN cfgPc' = "select" /\ wasChangedCh' = Append(wasChangedCh, r.msg)
             ELSE /\ cfgPc' = (IF r.msg = "nil" THEN "sendNil" ELSE "sendErr")
                  /\ UNCHANGED wasChangedCh
    /\ UNCHANGED <<supVars, procVars, isOpen, closedChs, isUpdateRunning, updateStartCh,
                   updateResultCh, todo, changedFiles, updErr,
                   ntfTok, archive, newDir, oldDir, oldBefore, actVars>>

\* the waiting send of handle: c.wasChangedCh <- err
handleSend ==
    /\ cfgPc \in {"sendNil", "sendErr"}
    /\ Len(wasChangedCh) < DefaultChanBuffSize
    /\ wasChangedCh' = Append(wasChangedCh, IF cfgPc = "sendNil" THEN "nil" ELSE "err")
    /\ cfgPc' = "select"
    /\ UNCHANGED <<supVars, procVars, isOpen, closedChs, wasChanged, isUpdateRunning,
                   updateStartCh, updateResultCh, todo, changedFiles, updErr,
                   ntfVars, fsVars, actVars, envVars, hist>>

\* mutant of createFilePresenceMap: the old-config dir is not listed
createFilePresenceMap_NewOnly(old, new) ==
    [f \in Files |-> IF new[f] # 0 THEN newConfigDirFlag ELSE 0]

\* createFilePresenceMap: flags of every name listed in old or new dir
createFilePresenceMap(old, new) ==
    [f \in Files |-> (IF old[f] # 0 THEN oldConfigDirFlag ELSE 0)
                     + (IF new[f] # 0 THEN newConfigDirFlag ELSE 0)]

\* mutant of AreFilesDifferent: every pair of files is different
AreFilesDifferent_Always(a, b) == TRUE

\* fs.AreFilesDifferent: a file is the number that stands for its content
\* and its mode, so two files differ when their numbers do
AreFilesDifferent(a, b) == a # b

\* case <-c.updateStartCh (open): the update function starts; ClearDir,
\* Extract and createFilePresenceMap run
updateTarredConfigBegin ==
    /\ cfgPc = "select"
    /\ updateStartCh > 0
    /\ updateStartCh' = updateStartCh - 1
    /\ cfgPc' = "update"
    /\ changedFiles' = NoChanges
    /\ \E fail \in (IF hardlink = 0 THEN {TRUE} ELSE FailureResults) :
        /\ events' = IF fail /\ hardlink # 0 THEN events + 1 ELSE events
        /\ updErr' = fail
        /\ \/ /\ fail
              /\ todo' = {}
              /\ newDir' \in {newDir, NoFiles}
                              \cup (IF hardlink # 0 THEN {Configs[hardlink]} ELSE {})
           \/ /\ ~fail
              /\ newDir' = Configs[hardlink]
              /\ todo' = {f \in Files : createFilePresenceMap(oldDir, newDir')[f] # 0}
    /\ oldBefore' = oldDir
    /\ UNCHANGED <<supVars, procVars, isOpen, closedChs, wasChanged, isUpdateRunning, wasChangedCh,
                   updateResultCh, ntfVars, archive, hardlink, oldDir, actVars, hist>>

\* one iteration of the loop over filePresenceMap (Go picks the order)
updateTarredConfigFile ==
    /\ cfgPc = "update" /\ ~updErr
    /\ \E f \in todo : \E fail \in FailureResults :
        LET flag == createFilePresenceMap(oldDir, newDir)[f]
            different == AreFilesDifferent(newDir[f], oldDir[f]) IN
        /\ events' = IF fail THEN events + 1 ELSE events
        /\ updErr' = fail
        /\ todo' = todo \ {f}
        /\ IF fail
             THEN UNCHANGED <<newDir, oldDir, changedFiles>>
             ELSE IF flag = newConfigDirFlag
             THEN /\ oldDir' = [oldDir EXCEPT ![f] = newDir[f]]
                  /\ newDir' = [newDir EXCEPT ![f] = 0]
                  /\ changedFiles' = [changedFiles EXCEPT ![f] = Created]
             ELSE IF flag = newConfigDirFlag + oldConfigDirFlag
             THEN IF different
                    THEN /\ oldDir' = [oldDir EXCEPT ![f] = newDir[f]]
                         /\ newDir' = [newDir EXCEPT ![f] = 0]
                         /\ changedFiles' = [changedFiles EXCEPT ![f] = Modified]
                    ELSE UNCHANGED <<newDir, oldDir, changedFiles>>
             ELSE /\ oldDir' = [oldDir EXCEPT ![f] = 0]
                  /\ changedFiles' = [changedFiles EXCEPT ![f] = Deleted]
                  /\ UNCHANGED newDir
    /\ UNCHANGED <<supVars, procVars, isOpen, closedChs, wasChanged, isUpdateRunning, wasChangedCh,
                   updateStartCh, updateResultCh, cfgPc, ntfVars, archive, hardlink,
                   oldBefore, actVars, hist>>

\* mutant of updateResultSend: the result is sent twice
updateResultSend_Twice ==
    /\ cfgPc = "update" /\ (updErr \/ todo = {})
    /\ Len(updateResultCh) + 2 <= DefaultChanBuffSize
    /\ updateResultCh' = updateResultCh
                            \o <<[ChangedFiles |-> changedFiles, Err |-> updErr],
                                 [ChangedFiles |-> changedFiles, Err |-> updErr]>>
    /\ cfgPc' = "sent"
    /\ todo' = {}
    /\ changedFiles' = NoChanges
    /\ updErr' = FALSE
    /\ oldBefore' = NoFiles
    /\ UNCHANGED <<supVars, procVars, isOpen, closedChs, wasChanged, isUpdateRunning, wasChangedCh,
                   updateStartCh, ntfVars, archive, hardlink, newDir, oldDir, actVars,
                   envVars, hist>>

\* mutant of updateResultSend: a result with an error carries no map
updateResultSend_DropPartial ==
    /\ cfgPc = "update" /\ (updErr \/ todo = {})
    /\ Len(updateResultCh) < DefaultChanBuffSize
    /\ updateResultCh' = Append(updateResultCh,
                                [ChangedFiles |-> IF updErr THEN NoChanges ELSE changedFiles,
                                 Err |-> updErr])
    /\ cfgPc' = "sent"
    /\ todo' = {}
    /\ changedFiles' = NoChanges
    /\ updErr' = FALSE
    /\ oldBefore' = NoFiles
    /\ UNCHANGED <<supVars, procVars, isOpen, closedChs, wasChanged, isUpdateRunning, wasChangedCh,
                   updateStartCh, ntfVars, archive, hardlink, newDir, oldDir, actVars,
                   envVars, hist>>

\* the update function returns: c.updateResultCh <- c.updateFunc()
updateResultSend ==
    /\ cfgPc = "update" /\ (updErr \/ todo = {})
    /\ Len(updateResultCh) < DefaultChanBuffSize
    /\ updateResultCh' = Append(updateResultCh, [ChangedFiles |-> changedFiles, Err |-> updErr])
    /\ cfgPc' = "sent"
    /\ todo' = {}
    /\ changedFiles' = NoChanges
    /\ updErr' = FALSE
    /\ oldBefore' = NoFiles
    /\ UNCHANGED <<supVars, procVars, isOpen, closedChs, wasChanged, isUpdateRunning, wasChangedCh,
                   updateStartCh, ntfVars, archive, hardlink, newDir, oldDir, actVars,
                   envVars, hist>>

\* c.wasChanged.Store(false); c.isUpdateRunning.Store(false)
updateFlagsClear ==
    /\ cfgPc = "sent"
    /\ wasChanged' = FALSE
    /\ isUpdateRunning' = FALSE
    /\ cfgPc' = "select"
    /\ UNCHANGED <<supVars, procVars, isOpen, closedChs, wasChangedCh, updateStartCh, updateResultCh,
                   todo, changedFiles, updErr, ntfVars, fsVars, actVars, envVars, hist>>

\* mutant of updateStartClosed: the closed channel is noticed before the
\* request that is still buffered in it
updateStartClosed_Eager ==
    /\ cfgPc = "select"
    /\ "updateStartCh" \in closedChs
    /\ "updateResultCh" \notin closedChs
    /\ closedChs' = closedChs \cup {"updateResultCh", "fsnotify"}
    /\ wasChanged' = FALSE
    /\ isUpdateRunning' = FALSE
    /\ UNCHANGED <<supVars, procVars, isOpen, wasChangedCh, updateStartCh, updateResultCh,
                   cfgPc, todo, changedFiles, updErr, ntfVars, fsVars, actVars, envVars,
                   hist>>

\* case _, open := <-c.updateStartCh with open = false: c.updateStartCh = nil,
\* fw.Stop(), close(c.updateResultCh) and the two Store(false)
updateStartClosed ==
    /\ cfgPc = "select"
    /\ "updateStartCh" \in closedChs /\ updateStartCh = 0
    /\ "updateResultCh" \notin closedChs
    /\ closedChs' = closedChs \cup {"updateResultCh", "fsnotify"}
    /\ wasChanged' = FALSE
    /\ isUpdateRunning' = FALSE
    /\ UNCHANGED <<supVars, procVars, isOpen, wasChangedCh, updateStartCh, updateResultCh,
                   cfgPc, todo, changedFiles, updErr, ntfVars, fsVars, actVars, envVars,
                   hist>>

\* case _, open := <-configChangedCh with open = false: the hardlink is
\* deleted (a failure is sent on wasChangedCh, and the worker waits for ever
\* when that channel is full: a closed handler gives its caller no channel to
\* receive from), wasChangedCh is closed and, c.updateStartCh being nil
\* already, the worker returns
notifyClosed ==
    /\ cfgPc = "select"
    /\ "notifyCh" \in closedChs /\ ntfTok = 0
    /\ "wasChangedCh" \notin closedChs
    /\ \E fail \in (IF hardlink = 0 THEN {FALSE} ELSE FailureResults) :
        /\ events' = IF fail THEN events + 1 ELSE events
        /\ hardlink' = IF fail THEN hardlink ELSE 0
        /\ IF fail /\ Len(wasChangedCh) >= DefaultChanBuffSize
             THEN cfgPc' = "blocked" /\ UNCHANGED <<wasChangedCh, closedChs>>
             ELSE /\ cfgPc' = "exited"
                  /\ wasChangedCh' = IF fail THEN Append(wasChangedCh, "err") ELSE wasChangedCh
                  /\ closedChs' = closedChs \cup {"wasChangedCh"}
    /\ UNCHANGED <<supVars, procVars, isOpen, wasChanged, isUpdateRunning, updateStartCh,
                   updateResultCh, todo, changedFiles, updErr, ntfVars, archive, newDir,
                   oldDir, oldBefore, actVars, hist>>

listenToEvents ==
    \/ wake
    \/ handle
    \/ handleSend
    \/ updateTarredConfigBegin
    \/ updateTarredConfigFile
    \/ updateResultSend
    \/ updateFlagsClear
    \/ updateStartClosed
    \/ notifyClosed

(* --------------------------- activation handler ----------------------- *)
\* the fsnotify watcher of the activation file is open
ActivationWatching == "fsnotify" \notin actClosed

\* the activation file is created or removed; the watcher goroutine gets the
\* event and calls notifier.Notify
activationFileToggled ==
    /\ Running
    /\ events < MaxEvents
    /\ events' = events + 1
    /\ actFile' = ~actFile
    /\ actVal' = IF ActivationWatching THEN NotifyStore(actVal, "op") ELSE actVal
    /\ actTok' = IF ActivationWatching THEN NotifySend(actTok) ELSE actTok
    /\ UNCHANGED <<supVars, procVars, cfgVars, ntfVars, fsVars, actCh, actIsOpen,
                   actClosed, actPc, actPending, hist>>

\* fsnotify reports an error on the activation watcher
activationWatcherError ==
    /\ Running
    /\ ActivationWatching
    /\ events < MaxEvents
    /\ events' = events + 1
    /\ actVal' = NotifyStore(actVal, "error")
    /\ actTok' = NotifySend(actTok)
    /\ UNCHANGED <<supVars, procVars, cfgVars, ntfVars, fsVars, actFile, actCh,
                   actIsOpen, actClosed, actPc, actPending, hist>>

\* the watcher goroutine sees its fsnotify channel closed and returns; the
\* deferred notifier.Stop() closes the notification channel and takes the
\* token that may be left in it
activationWatcherStopped ==
    /\ ~ActivationWatching
    /\ "notifyCh" \notin actClosed
    /\ actClosed' = actClosed \cup {"notifyCh"}
    /\ actTok' = 0
    /\ UNCHANGED <<supVars, procVars, cfgVars, ntfVars, fsVars, actFile, actVal, actCh,
                   actIsOpen, actPc, actPending, envVars, hist>>

\* case _, open := <-notifier with open = true: a token is received
activationWake ==
    /\ actPc = "select"
    /\ actTok > 0
    /\ actTok' = actTok - 1
    /\ actPc' = "wake"
    /\ UNCHANGED <<supVars, procVars, cfgVars, ntfVars, fsVars, actFile, actVal, actCh,
                   actIsOpen, actClosed, actPending, envVars, hist>>

\* mutant of ActivationEventOf: the state of the event is not re-read
ActivationEventOf_Stale(ev) == [State |-> TRUE, Error |-> (ev = "error")]

\* ActivationEvent{State: a.fs.DoesExist(a.activationFile), Error: ev.Error}
ActivationEventOf(ev) == [State |-> actFile, Error |-> (ev = "error")]

\* mutant of activationHandle: an event is dropped when wasChanged is full
activationHandle_DropWhenFull ==
    /\ actPc = "wake"
    /\ actVal' = "none"
    /\ actPc' = "select"
    /\ actCh' = IF actVal # "none" /\ Len(actCh) < DefaultChanBuffSize
                  THEN Append(actCh, ActivationEventOf(actVal))
                  ELSE actCh
    /\ UNCHANGED <<supVars, procVars, cfgVars, ntfVars, fsVars, actFile, actTok,
                   actIsOpen, actClosed, actPending, envVars, hist>>

\* a.handle(fw.GetEvent()): nothing for a nil event; when wasChanged is full
\* the send waits
activationHandle ==
    /\ actPc = "wake"
    /\ actVal' = "none"
    /\ IF actVal = "none"
         THEN actPc' = "select" /\ UNCHANGED <<actCh, actPending>>
         ELSE IF Len(actCh) < DefaultChanBuffSize
         THEN /\ actCh' = Append(actCh, ActivationEventOf(actVal))
              /\ actPc' = "select"
              /\ UNCHANGED actPending
         ELSE /\ actPending' = <<ActivationEventOf(actVal)>>
              /\ actPc' = "send"
              /\ UNCHANGED actCh
    /\ UNCHANGED <<supVars, procVars, cfgVars, ntfVars, fsVars, actFile, actTok,
                   actIsOpen, actClosed, envVars, hist>>

\* the waiting send of handle: a.wasChanged <- event
activationHandleSend ==
    /\ actPc = "send"
    /\ Len(actCh) < DefaultChanBuffSize
    /\ actCh' = Append(actCh, actPending[1])
    /\ actPending' = <<>>
    /\ actPc' = "select"
    /\ UNCHANGED <<supVars, procVars, cfgVars, ntfVars, fsVars, actFile, actTok, actVal,
                   actIsOpen, actClosed, envVars, hist>>

\* mutant of activationDone: the event channel is closed on a user's close
activationDone_ClosesEvents ==
    /\ actPc = "select"
    /\ "done" \in actClosed
    /\ actClosed' = actClosed \cup {"fsnotify", "wasChanged"}
    /\ actPc' = "stopped"
    /\ UNCHANGED <<supVars, procVars, cfgVars, ntfVars, fsVars, actFile, actTok, actVal,
                   actCh, actIsOpen, actPending, envVars, hist>>

\* case <-a.done: fw.Stop() and return
activationDone ==
    /\ actPc = "select"
    /\ "done" \in actClosed
    /\ actClosed' = actClosed \cup {"fsnotify"}
    /\ actPc' = "stopped"
    /\ UNCHANGED <<supVars, procVars, cfgVars, ntfVars, fsVars, actFile, actTok, actVal,
                   actCh, actIsOpen, actPending, envVars, hist>>

\* case _, open := <-notifier with open = false: close(a.wasChanged), return
activationNotifyClosed ==
    /\ actPc = "select"
    /\ "notifyCh" \in actClosed /\ actTok = 0
    /\ actClosed' = actClosed \cup {"wasChanged"}
    /\ actPc' = "closed"
    /\ UNCHANGED <<supVars, procVars, cfgVars, ntfVars, fsVars, actFile, actTok, actVal,
                   actCh, actIsOpen, actPending, envVars, hist>>

\* FileActivationHandler.listenActivationChanges
listenActivationChanges ==
    \/ activationWake
    \/ activationHandle
    \/ activationHandleSend
    \/ activationDone
    \/ activationNotifyClosed

(* ------------------------------ the system ---------------------------- *)
\* The arms of listenActivationChanges but the one for a notification channel
\* that is closed: in the program only fw.Stop() closes it, and the worker
\* returns right after calling it.
Next ==
    \/ changeStateByEvent
    \/ handleStatusChange
    \/ cmdStart
    \/ cmdWait
    \/ orphanExit
    \/ archiveMovedIn
    \/ archiveRemoved
    \/ watcherError
    \/ watcherStopped
    \/ listenToEvents
    \/ activationFileToggled
    \/ activationWatcherError
    \/ activationWatcherStopped
    \/ activationWake
    \/ activationHandle
    \/ activationHandleSend
    \/ activationDone

Spec == Init /\ [][Next]_vars

(* ---------- the configuration handler under any single caller --------- *)
\* The caller (one goroutine, as the handler is not safe for more) uses the
\* methods of ConfigurationHandlerBase in any order; supPc is its position:
\* "event" between two calls, "updateStore" inside an accepted Update().

\* Update() up to its send on updateStartCh, or up to its return of an error
clientUpdate ==
    /\ supPc = "event"
    /\ calls' = <<Call("Update", UpdateError = "nil", state.process)>>
    /\ hist' = (IF UpdateError = "nil" THEN "accepted" ELSE "rejected")
    /\ IF UpdateError = "nil"
         THEN /\ updateStartCh < DefaultChanBuffSize
              /\ updateStartCh' = updateStartCh + 1
              /\ supPc' = "updateStore"
         ELSE UNCHANGED <<updateStartCh, supPc>>
    /\ UNCHANGED <<state, wasConfigChanged, configUpdatesRunning, procVars, isOpen,
                   closedChs, wasChanged, isUpdateRunning, wasChangedCh, updateResultCh,
                   cfgPc, todo, changedFiles, updErr, ntfVars, fsVars, actVars, envVars>>

\* c.isUpdateRunning.Store(true) and the return of an accepted Update()
clientUpdateStore ==
    /\ supPc = "updateStore"
    /\ isUpdateRunning' = TRUE
    /\ supPc' = "event"
    /\ UNCHANGED <<state, wasConfigChanged, configUpdatesRunning, calls, procVars, isOpen,
                   closedChs, wasChanged, wasChangedCh, updateStartCh, updateResultCh,
                   cfgPc, todo, changedFiles, updErr, ntfVars, fsVars, actVars, envVars,
                   hist>>

\* <-c.GetWasChangedChannel(): a nil channel once the handler is closed
clientReceiveChanged ==
    /\ supPc = "event"
    /\ isOpen /\ wasChangedCh # <<>>
    /\ wasChangedCh' = Tail(wasChangedCh)
    /\ calls' = <<Call("GetWasChangedChannel", Head(wasChangedCh) = "nil", state.process)>>
    /\ UNCHANGED <<state, wasConfigChanged, configUpdatesRunning, supPc, procVars, isOpen,
                   closedChs, wasChanged, isUpdateRunning, updateStartCh, updateResultCh,
                   cfgPc, todo, changedFiles, updErr, ntfVars, fsVars, actVars, envVars,
                   hist>>

\* <-c.GetUpdateResultChannel(): a nil channel once the handler is closed
clientReceiveResult ==
    /\ supPc = "event"
    /\ isOpen /\ updateResultCh # <<>>
    /\ updateResultCh' = Tail(updateResultCh)
    /\ calls' = <<Call("GetUpdateResultChannel", ~Head(updateResultCh).Err, state.process)>>
    /\ UNCHANGED <<state, wasConfigChanged, configUpdatesRunning, supPc, procVars, isOpen,
                   closedChs, wasChanged, isUpdateRunning, wasChangedCh, updateStartCh,
                   cfgPc, todo, changedFiles, updErr, ntfVars, fsVars, actVars, envVars,
                   hist>>

\* Close()
clientClose ==
    /\ supPc = "event"
    /\ Close
    /\ calls' = <<Call("Close", isOpen, state.process)>>
    /\ UNCHANGED <<state, wasConfigChanged, configUpdatesRunning, supPc, procVars,
                   wasChanged, isUpdateRunning, wasChangedCh, updateStartCh,
                   updateResultCh, cfgPc, todo, changedFiles, updErr, ntfVars, fsVars,
                   actVars, envVars, hist>>

NextHandler ==
    \/ clientUpdate
    \/ clientUpdateStore
    \/ clientReceiveChanged
    \/ clientReceiveResult
    \/ clientClose
    \/ archiveMovedIn
    \/ archiveRemoved
    \/ watcherError
    \/ watcherStopped
    \/ listenToEvents

SpecHandler == Init /\ [][NextHandler]_vars

\* the goroutines of the worker and of the watcher are scheduled
SpecHandlerFair ==
    SpecHandler /\ WF_vars(listenToEvents) /\ WF_vars(watcherStopped)

(* ------------ the activation handler under any single caller ---------- *)
\* The caller receives from the channel GetWasChangedChannel gives it and
\* closes the activation handler and the configuration handler, in any
\* order; the Watcher of the activation handler may end by itself.

\* mutant of ActivationChannel: the channel is returned after Close() too
ActivationChannel_KeepOpen == "wasChanged"

\* GetWasChangedChannel: a.wasChanged, or nil when the handler is closed
ActivationChannel == IF actIsOpen THEN "wasChanged" ELSE "nil"

\* <-a.GetWasChangedChannel(): the oldest event, or the zero value of a
\* closed and empty channel; a nil channel never delivers
activationClientReceive ==
    /\ supPc = "event"
    /\ ActivationChannel # "nil"
    /\ \/ /\ actCh # <<>>
          /\ actCh' = Tail(actCh)
          /\ calls' = <<Call("GetWasChangedChannel", TRUE, state.process)>>
       \/ /\ actCh = <<>> /\ "wasChanged" \in actClosed
          /\ UNCHANGED actCh
          /\ calls' = <<Call("GetWasChangedChannel", FALSE, state.process)>>
    /\ UNCHANGED <<state, wasConfigChanged, configUpdatesRunning, supPc, procVars,
                   cfgVars, ntfVars, fsVars, actFile, actTok, actVal, actIsOpen,
                   actClosed, actPc, actPending, envVars, hist>>

\* a.Close()
activationClientClose ==
    /\ supPc = "event"
    /\ ActivationClose
    /\ calls' = <<Call("ActivationClose", actIsOpen, state.process)>>
    /\ UNCHANGED <<state, wasConfigChanged, configUpdatesRunning, supPc, procVars,
                   cfgVars, ntfVars, fsVars, actFile, actTok, actVal, actCh, actPc,
                   actPending, envVars, hist>>

\* the Watcher ends by itself: its channels are closed without fw.Stop()
\* (the mock Watcher of the tests closes its notification channel)
activationWatcherClosed ==
    /\ ActivationWatching
    /\ actClosed' = actClosed \cup {"fsnotify"}
    /\ UNCHANGED <<supVars, procVars, cfgVars, ntfVars, fsVars, actFile, actTok, actVal,
                   actCh, actIsOpen, actPc, actPending, envVars, hist>>

\* Of listenToEvents the arms that a handler with no archive event and no
\* Update() call can take are there: the two arms of closing.
NextActivation ==
    \/ activationClientReceive
    \/ activationClientClose
    \/ activationFileToggled
    \/ activationWatcherError
    \/ activationWatcherClosed
    \/ activationWatcherStopped
    \/ listenActivationChanges
    \/ clientClose
    \/ updateStartClosed
    \/ watcherStopped
    \/ notifyClosed

SpecActivation == Init /\ [][NextActivation]_vars

(* ----------- the event notifier under any producer and consumer ------- *)
\* The notifier is the one of the configuration watcher (ntfTok, ntfVal and
\* "notifyCh"), used here directly: the producer calls Notify and Stop, the
\* consumer receives from the channel and calls GetValue. calls is the
\* history since the latest Notify that followed a GetValue: the Notify
\* calls and then the latest GetValue, each with its value as third field.
\* A goroutine that panicked makes no further call.
NotifyValues == {"create", "remove", "error"}

LastCall == calls[Len(calls)]

\* Notify(v), by the producer before it stops the notifier
notifierNotify ==
    /\ "notifyCh" \notin closedChs
    /\ events < MaxEvents
    /\ events' = events + 1
    /\ \E v \in NotifyValues :
        /\ ntfVal' = NotifyStore(ntfVal, v)
        /\ calls' = IF calls # <<>> /\ LastCall.op = "Notify"
                      THEN Append(calls, Call("Notify", TRUE, v))
                      ELSE <<Call("Notify", TRUE, v)>>
    /\ ntfTok' = NotifySend(ntfTok)
    /\ UNCHANGED <<state, wasConfigChanged, configUpdatesRunning, supPc, procVars,
                   cfgVars, fsVars, actVars, hist>>

\* GetValue(): e.val.Swap(nil)
notifierGetValue ==
    /\ "panic" \notin closedChs
    /\ ntfVal' = "none"
    /\ calls' = IF calls # <<>> /\ LastCall.op = "Notify"
                  THEN Append(calls, Call("GetValue", ntfVal # "none", ntfVal))
                  ELSE IF calls = <<>>
                  THEN <<Call("GetValue", ntfVal # "none", ntfVal)>>
                  ELSE [calls EXCEPT ![Len(calls)] =
                            Call("GetValue", ntfVal # "none", ntfVal)]
    /\ UNCHANGED <<state, wasConfigChanged, configUpdatesRunning, supPc, procVars,
                   cfgVars, ntfTok, fsVars, actVars, envVars, hist>>

\* <-e.GetNotifyChannel() by the consumer, when a token is there
notifierReceive ==
    /\ "panic" \notin closedChs
    /\ ntfTok > 0
    /\ ntfTok' = ntfTok - 1
    /\ UNCHANGED <<supVars, procVars, cfgVars, ntfVal, fsVars, actVars, envVars, hist>>

\* Stop(): close(e.ch), then <-e.ch takes the token that may be left
notifierStop ==
    /\ "panic" \notin closedChs
    /\ closedChs' = CloseChan(closedChs, "notifyCh")
    /\ ntfTok' = IF "notifyCh" \in closedChs THEN ntfTok ELSE 0
    /\ UNCHANGED <<supVars, procVars, isOpen, wasChanged, isUpdateRunning, wasChangedCh,
                   updateStartCh, updateResultCh, cfgPc, todo, changedFiles, updErr,
                   ntfVal, fsVars, actVars, envVars, hist>>

NextNotifier ==
    \/ notifierNotify
    \/ notifierGetValue
    \/ notifierReceive
    \/ notifierStop

SpecNotifier == Init /\ [][NextNotifier]_vars

(* ------------- the tarred update over any pair of directories --------- *)
\* a directory: for every name 0 when there is no such file, else the number
\* that stands for the content and the mode of the file
Dirs == [Files -> {0, 1, 2}]

\* The handler when its worker is about to run an accepted request: the
\* archive Configs[hardlink] is linked, the old-config dir and the staging
\* dir hold any files (main creates the directories and keeps what they
\* hold).
InitTarred ==
    /\ state = [activation |-> inactive, configuration |-> changed, process |-> dead]
    /\ wasConfigChanged = FALSE
    /\ configUpdatesRunning = 0
    /\ supPc = "event"
    /\ calls = <<Call("Update", TRUE, dead)>>
    /\ process = "ok"
    /\ child = "idle"
    /\ startedCh = <<>>
    /\ endedCh = <<>>
    /\ orphans = 0
    /\ isOpen = TRUE
    /\ closedChs = {}
    /\ isUpdateRunning = TRUE
    /\ hardlink \in ConfigIds
    /\ archive = hardlink
    /\ wasChanged = TRUE
    /\ wasChangedCh = <<>>
    /\ events = 0
    /\ updateStartCh = 1
    /\ updateResultCh = <<>>
    /\ cfgPc = "select"
    /\ todo = {}
    /\ changedFiles = NoChanges
    /\ updErr = FALSE
    /\ ntfTok = 0
    /\ ntfVal = "none"
    /\ newDir \in Dirs
    /\ oldDir \in Dirs
    /\ oldBefore = NoFiles
    /\ actFile = FALSE
    /\ actTok = 0
    /\ actVal = "none"
    /\ actCh = <<[State |-> actFile, Error |-> FALSE]>>
    /\ actIsOpen = TRUE
    /\ actClosed = {}
    /\ actPc = "select"
    /\ actPending = <<>>
    /\ hist = "accepted"

NextTarred ==
    \/ updateTarredConfigBegin
    \/ updateTarredConfigFile
    \/ updateResultSend
    \/ updateFlagsClear

SpecTarred == InitTarred /\ [][NextTarred]_vars


(* ============================ properties ============================== *)
\* a payload process exists: the child of the current handler or of a
\* replaced one has been spawned and has not exited
PayloadAlive == child \in {"running", "killed"} \/ orphans > 0

\* an accepted update is in its loop over the presence map, with iterations
\* (moves or deletes in the old-config dir) still to do
MovingFiles == cfgPc = "update" /\ ~updErr /\ todo # {}

\* an accepted update has been requested and its function has not returned
UpdateInFlight == updateStartCh > 0 \/ cfgPc = "update"

\* accepted update requests whose UpdateResult the supervisor has not consumed
PendingResults ==
    updateStartCh + (IF cfgPc = "update" THEN 1 ELSE 0) + Len(updateResultCh)

CallOps(cs) == [i \in DOMAIN cs |-> cs[i].op]
Issues(cs, op) == \E i \in DOMAIN cs : cs[i].op = op

\* the step is the supervisor's handleStatusChange
DecisionStep == supPc = "handle" /\ supPc' # "handle"

\* the step is handleStatusChange entered with the triple (a, c, p)
DecisionStepAt(a, c, p) ==
    /\ DecisionStep
    /\ state = [activation |-> a, configuration |-> c, process |-> p]

(* ---- C1 ---- *)
\* C1 (as claimed): in every reachable state the payload process is not
\* alive while an accepted update is moving or deleting files in the
\* old-config dir.
C1_NoPayloadDuringUpdate == ~(MovingFiles /\ PayloadAlive)

\* C1 (amended): no payload process is spawned while an accepted update is
\* pending or running; only a payload that was already alive when the update
\* was requested can be alive while the update moves or deletes files.
C1_NoSpawnDuringUpdate ==
    [][(child = "starting" /\ child' = "running") => ~UpdateInFlight /\ ~UpdateInFlight']_vars

\* C1 witness: an update has changed a file and has more to do while the
\* payload spawned before it is running.
C1_Witness ==
    /\ MovingFiles /\ MapLen(changedFiles) > 0
    /\ child = "running" /\ state.process = alive

(* ---- C2 ---- *)
\* C2: a start (alone or in a restart) is issued only from a state whose
\* configuration is applied or updated and with no update in flight, and in
\* every reachable state configuration in {applied, updated} implies
\* configUpdatesRunning = 0.
C2_StartOnlyOnCommittedConfig ==
    /\ [](state.configuration \in {applied, updated} => configUpdatesRunning = 0)
    /\ [][(DecisionStep /\ Issues(calls', "NewProcessHandler"))
            => /\ state.configuration \in {applied, updated}
               /\ configUpdatesRunning = 0
               /\ ~UpdateInFlight]_vars

\* C2 witness: a start was issued after an update that changed files.
C2_Witness ==
    /\ Issues(calls, "Start")
    /\ state.configuration = updated
    /\ oldDir # NoFiles

(* ---- C3 ---- *)
\* C3: whenever the supervisor is between two steps of its loop,
\* configUpdatesRunning is >= 0 and equals the number of update requests
\* whose UpdateResult has not been consumed yet.
C3_CounterEqualsPending ==
    supPc \in {"event", "handle"} =>
        /\ configUpdatesRunning >= 0
        /\ configUpdatesRunning = PendingResults

C5_UpdatedImpliesWasChanged ==
    /\ [](state.configuration = updated => wasConfigChanged)
    /\ [][(state.configuration # updated /\ state'.configuration = updated)
            => /\ supPc = "event"
               /\ Len(updateResultCh') < Len(updateResultCh)
               /\ wasConfigChanged']_vars
    /\ [][(wasConfigChanged /\ ~wasConfigChanged')
            => state.configuration = updated /\ state'.configuration = applied]_vars

\* C5 witness: the flag was reset by a start after an update with changes.
C5_Witness ==
    /\ state.configuration = applied
    /\ state.process = alive
    /\ ~wasConfigChanged
    /\ oldDir # NoFiles

(* ---- C6 ---- *)
\* the step applies a process-started event without error
StartedEventStep ==
    /\ supPc = "event" /\ supPc' = "handle"
    /\ startedCh # <<>> /\ startedCh' = Tail(startedCh)
    /\ Head(startedCh) = "nil"

\* C6: applying an error-free process-started event sets process to alive
\* and never leaves configuration = updated: updated becomes applied with
\* wasConfigChanged reset, any other configuration and wasConfigChanged are
\* left unchanged.
C6_StartedEvent ==
    [][StartedEventStep
        => /\ state'.process = alive
           /\ state'.activation = state.activation
           /\ state'.configuration # updated
           /\ IF state.configuration = updated
                THEN state'.configuration = applied /\ ~wasConfigChanged'
                ELSE /\ state'.configuration = state.configuration
                     /\ wasConfigChanged' = wasConfigChanged]_vars

\* C6 witness: a started event has just been applied on an updated
\* configuration.
C6_Witness ==
    /\ supPc = "handle"
    /\ state.process = alive /\ state.configuration = applied
    /\ calls # <<>> /\ calls[Len(calls)].op = "Start"
    /\ child = "running" /\ startedCh = <<>>
    /\ configUpdatesRunning = 0 /\ ~wasConfigChanged /\ oldDir # NoFiles

(* ---- C7 ---- *)
\* C7 (as claimed): in (active, updated, alive) the decision step calls Kill
\* once; if Kill succeeds process becomes changing and a fresh handler is
\* constructed and started in the same step; if Kill fails the triple is
\* unchanged and nothing is constructed or started.
C7_RestartAlwaysStarts ==
    [][DecisionStepAt(active, updated, alive)
        => \/ /\ CallOps(calls') = <<"Kill", "NewProcessHandler", "Start">>
              /\ calls'[1].ok /\ calls'[2].ok
              /\ state' = [state EXCEPT !.process = changing]
           \/ /\ calls' = <<Call("Kill", FALSE, alive)>>
              /\ state' = state]_vars

\* C7 (amended): as claimed, except that the construction after a
\* successful Kill can fail: then Start is not called and process stays
\* changing.
C7_RestartRule ==
    [][DecisionStepAt(active, updated, alive)
        => \/ /\ CallOps(calls') = <<"Kill", "NewProcessHandler", "Start">>
              /\ calls'[1].ok /\ calls'[2].ok
              /\ state' = [state EXCEPT !.process = changing]
              /\ process' = "ok" /\ child' = "starting"
           \/ /\ CallOps(calls') = <<"Kill", "NewProcessHandler">>
              /\ calls'[1].ok /\ ~calls'[2].ok
              /\ state' = [state EXCEPT !.process = changing]
              /\ child' # "starting"
           \/ /\ calls' = <<Call("Kill", FALSE, alive)>>
              /\ state' = state
              /\ process' = process /\ child' = child]_vars

\* C7 witness: a restart whose kill succeeded and whose construction failed.
C7_Witness ==
    /\ CallOps(calls) = <<"Kill", "NewProcessHandler">>
    /\ calls[1].ok /\ ~calls[2].ok
    /\ state = [activation |-> active, configuration |-> updated, process |-> changing]

(* ---- C8 ---- *)
\* C8: after the start rule's construction failed, Start has not been
\* called, the triple is the one the rule matched (process = dead) and the
\* supervisor goes on handling events.
C8_FailedConstructionIsHarmless ==
    (calls # <<>> /\ calls[1] = Call("NewProcessHandler", FALSE, dead))
        => /\ ~Issues(calls, "Start")
           /\ state.process = dead
           /\ state.activation = active
           /\ state.configuration \in {applied, updated}
           /\ supPc # "panicked"

(* ---- C9 ---- *)
\* C9: in every state with activation = inactive and process = alive, for
\* every configuration, the decision step calls Kill exactly once and
\* neither Start nor Update; on success process becomes changing, on a Kill
\* error the triple is unchanged.
C9_DeactivationRule ==
    [][(DecisionStep /\ state.activation = inactive /\ state.process = alive)
        => /\ Len(calls') = 1 /\ calls'[1].op = "Kill"
           /\ state' = IF calls'[1].ok THEN [state EXCEPT !.process = changing] ELSE state
           /\ supPc' = "event"
           /\ UNCHANGED <<configUpdatesRunning, wasConfigChanged, updateStartCh,
                          isUpdateRunning, process>>]_vars

\* C9 witness: a kill was issued for an inactive supervisor whose
\* configuration is changed.
C9_Witness ==
    /\ calls = <<Call("Kill", TRUE, alive)>>
    /\ state = [activation |-> inactive, configuration |-> changed, process |-> changing]

(* ---- C10 ---- *)
\* C10: with configuration = changed, process dead or alive and no earlier
\* rule matching, the decision step calls Update() exactly once, increments
\* configUpdatesRunning by one and sets configuration to notReady, leaving
\* activation and process unchanged; while process = changing no update is
\* requested and configuration stays changed.
C10_UpdateRequestRule ==
    /\ [][(/\ DecisionStep /\ state.configuration = changed
           /\ state.process \in {dead, alive}
           /\ ~(state.activation = inactive /\ state.process = alive))
            => /\ Len(calls') = 1 /\ calls'[1].op = "Update"
               /\ \/ /\ supPc' = "event"
                     /\ configUpdatesRunning' = configUpdatesRunning + 1
                     /\ state' = [state EXCEPT !.configuration = notReady]
                     /\ updateStartCh' = updateStartCh
                  \/ /\ supPc' = "updateStore"
                     /\ updateStartCh' = updateStartCh + 1
                     /\ state' = state]_vars
    /\ [][(supPc = "updateStore" /\ supPc' # "updateStore")
            => /\ supPc' = "event"
               /\ configUpdatesRunning' = configUpdatesRunning + 1
               /\ state' = [state EXCEPT !.configuration = notReady]
               /\ calls' = calls]_vars
    /\ [][(DecisionStep /\ state.configuration = changed /\ state.process = changing)
            => /\ calls' = <<>> /\ state' = state
               /\ UNCHANGED <<configUpdatesRunning, updateStartCh>>]_vars

\* C10 witness: an update was requested while the process is alive and the
\* request has been counted.
C10_Witness ==
    /\ supPc = "event"
    /\ calls = <<Call("Update", TRUE, alive)>>
    /\ state.configuration = notReady /\ state.process = alive
    /\ configUpdatesRunning = 1

(* ---- C11 ---- *)
\* the triples the claim lists as matched by none of the rules 1-4
C11_Unmatched(s) ==
    \/ s.process = changing
    \/ s.configuration = notReady /\ ~(s.activation = inactive /\ s.process = alive)
    \/ s.activation = inactive /\ s.configuration \in {updated, applied} /\ s.process = dead
    \/ s = [activation |-> active, configuration |-> applied, process |-> alive]

AllTriples == [activation : AnyActivation, configuration : AnyConfiguration,
               process : AnyProcess]

\* C11: the triples matched by none of rules 1-4 are exactly the listed
\* ones, and in each of them the decision step calls no handler method and
\* leaves the triple, wasConfigChanged, configUpdatesRunning and the handlers
\* unchanged.
C11_NoOpRule ==
    /\ [](\A s \in AllTriples : C11_Unmatched(s) <=> Rule(s) = 5)
    /\ [][(DecisionStep /\ C11_Unmatched(state))
            => /\ calls' = <<>>
               /\ supPc' = "event"
               /\ UNCHANGED <<state, wasConfigChanged, configUpdatesRunning,
                              procVars, cfgVars>>]_vars

\* C11 witness: the decision step after the payload of an applied
\* configuration was confirmed started did nothing.
C11_Witness ==
    /\ supPc = "event" /\ calls = <<>>
    /\ state = [activation |-> active, configuration |-> applied, process |-> alive]
    /\ child = "running"

(* ---- C12 ---- *)
\* the step is the select arm of changeStateByEvent that received from ch
EventStep(ch, chAfter) ==
    /\ supPc = "event" /\ supPc' = "handle"
    /\ ch # <<>> /\ chAfter = Tail(ch)

\* C12: an activation-changed, configuration-changed, update-result or
\* process-started event that carries an error leaves the triple,
\* wasConfigChanged and configUpdatesRunning as they were; a process-ended
\* event sets process to dead, with or without an error, and changes
\* nothing else of them.
C12_ErrorEvents ==
    /\ [][(EventStep(actCh, actCh') /\ Head(actCh).Error)
            => UNCHANGED <<state, wasConfigChanged, configUpdatesRunning>>]_vars
    /\ [][(EventStep(wasChangedCh, wasChangedCh') /\ Head(wasChangedCh) # "nil")
            => UNCHANGED <<state, wasConfigChanged, configUpdatesRunning>>]_vars
    /\ [][(EventStep(updateResultCh, updateResultCh') /\ Head(updateResultCh).Err)
            => UNCHANGED <<state, wasConfigChanged, configUpdatesRunning>>]_vars
    /\ [][(EventStep(startedCh, startedCh') /\ Head(startedCh) # "nil")
            => UNCHANGED <<state, wasConfigChanged, configUpdatesRunning>>]_vars
    /\ [][EventStep(endedCh, endedCh')
            => /\ state' = [state EXCEPT !.process = dead]
               /\ UNCHANGED <<wasConfigChanged, configUpdatesRunning>>]_vars

\* C12 witness: the error of a failed spawn has been received and the
\* process is still changing.
C12_Witness ==
    /\ supPc = "handle"
    /\ process = "ok" /\ child = "failed" /\ startedCh = <<>>
    /\ state.process = changing

(* ---- C13 ---- *)
\* the step is a call of Update() on the configuration handler
UpdateCallStep ==
    /\ supPc \in {"event", "handle"}
    /\ calls' # <<>> /\ calls'[1].op = "Update"
    /\ \/ calls' # calls
       \/ hist' # hist /\ hist' \in {"accepted", "rejected"}
       \/ updateStartCh' > updateStartCh

\* the call of this step is accepted: a request is sent to the worker
UpdateAccepted == updateStartCh' = updateStartCh + 1

\* a successful changed event has occurred since the last completed update:
\* the flag handle sets, which the worker clears right after it has
\* delivered the result of an update
ChangedSinceLastUpdate == wasChanged /\ cfgPc # "sent"

\* C13: Update() is accepted if and only if the handler is open, a
\* successful changed event has occurred since the last completed update, no
\* accepted update is still in flight and the result channel is empty; a
\* rejected call returns an error, starts no update function and produces no
\* UpdateResult.
C13_UpdateAcceptedIff ==
    [][UpdateCallStep
        => /\ UpdateAccepted <=> (/\ isOpen
                                  /\ ChangedSinceLastUpdate
                                  /\ ~UpdateInFlight
                                  /\ Len(updateResultCh) = 0)
           /\ calls'[1].ok <=> UpdateAccepted
           /\ ~UpdateAccepted
                => UNCHANGED <<updateStartCh, updateResultCh, cfgPc, isUpdateRunning,
                               wasChanged, todo, changedFiles, fsVars>>]_vars

(* ---- C14 ---- *)
\* accepted requests whose update function has not returned
Outstanding == updateStartCh + (IF cfgPc = "update" THEN 1 ELSE 0)

\* C14: a request reaches the worker only by an accepted Update(); every
\* request starts the update function once and every run of the update
\* function delivers one value on the update-result channel; a value is
\* delivered only by a run that a request started; at most one request is
\* outstanding, so the results come in the order of the requests.
C14_OneResultPerRequest ==
    /\ [](Outstanding <= 1)
    /\ [][updateStartCh' > updateStartCh
            => UpdateCallStep /\ UpdateError = "nil" /\ UpdateAccepted]_vars
    /\ [][updateStartCh' < updateStartCh
            => /\ updateStartCh' = updateStartCh - 1
               /\ cfgPc # "update" /\ cfgPc' = "update"]_vars
    /\ [][(cfgPc # "update" /\ cfgPc' = "update")
            => updateStartCh' = updateStartCh - 1]_vars
    /\ [][(cfgPc = "update" /\ cfgPc' # "update")
            => /\ cfgPc' = "sent"
               /\ Len(updateResultCh') = Len(updateResultCh) + 1
               /\ SubSeq(updateResultCh', 1, Len(updateResultCh)) = updateResultCh]_vars
    /\ [][Len(updateResultCh') > Len(updateResultCh)
            => /\ cfgPc = "update" /\ cfgPc' = "sent"
               /\ Len(updateResultCh') = Len(updateResultCh) + 1]_vars

\* C14 witness: the caller has received the result of an update that
\* changed files, and no other request or result is left.
C14_Witness ==
    /\ calls = <<Call("GetUpdateResultChannel", TRUE, dead)>>
    /\ oldDir # NoFiles
    /\ Outstanding = 0 /\ updateResultCh = <<>> /\ cfgPc = "select"

C16_ArrivalNotDelayedByUpdate ==
    (/\ cfgPc = "update"
     /\ ntfTok > 0 /\ ntfVal = "create"
     /\ Len(wasChangedCh) < DefaultChanBuffSize)
        => ENABLED wake

(* ---- C17 ---- *)
\* C17: when a change was observed after an Update() was accepted and
\* before that update completed, then once the update has completed and its
\* result has been consumed the was-changed condition is set and the next
\* Update() is accepted.
C17_LateChangeKept ==
    (/\ hist = "late"
     /\ isOpen /\ supPc = "event"
     /\ ~UpdateInFlight /\ cfgPc = "select"
     /\ updateResultCh = <<>>)
        => wasChanged /\ UpdateError = "nil"

(* ---- C18 ---- *)
\* C18: when the constructor returns, an archive that existed has produced
\* exactly one changed event (nil after a hardlink, which makes Update()
\* eligible, an error otherwise, which does not) and a missing archive has
\* produced none; afterwards a changed event is sent only for a watcher
\* wakeup (or, when the handler is closed, for a hardlink that cannot be
\* deleted).
C18_BootEvent ==
    /\ IF archive # 0
         THEN /\ Len(wasChangedCh) = 1
              /\ wasChangedCh[1] = "nil"
                    => hardlink = archive /\ wasChanged /\ UpdateError = "nil"
              /\ wasChangedCh[1] # "nil"
                    => hardlink = 0 /\ ~wasChanged /\ UpdateError = "noChange"
         ELSE wasChangedCh = <<>> /\ ~wasChanged /\ UpdateError = "noChange"
    /\ [][Len(wasChangedCh') > Len(wasChangedCh)
            => \/ cfgPc \in {"wake", "sendNil", "sendErr"} /\ cfgPc' = "select"
               \/ "notifyCh" \in closedChs /\ cfgPc' = "exited"]_vars

\* C18 witness: the changed event of the archive found at construction has
\* been received and, nothing else having arrived, an Update() was accepted.
C18_Witness ==
    /\ events = 0 /\ archive # 0
    /\ wasChangedCh = <<>>
    /\ calls = <<Call("Update", TRUE, dead)>>
    /\ Outstanding = 1

(* ---- C19 ---- *)
\* the step is handle(fw.GetEvent()) up to its send
HandleStep == cfgPc = "wake" /\ cfgPc' # "wake"

\* the values the handle of this step sends or is waiting to send
HandleSent ==
    IF cfgPc' = "sendNil" THEN <<"nil">>
    ELSE IF cfgPc' = "sendErr" THEN <<"err">>
    ELSE SubSeq(wasChangedCh', Len(wasChangedCh) + 1, Len(wasChangedCh'))

\* C19: the handle of a wakeup whose event is not nil sends exactly one
\* value on the changed channel: nil only when the event is an operation
\* other than Remove and the archive was hardlinked, which sets the
\* was-changed condition; an error when the watcher reported an error, the
\* archive was removed or the hardlink failed, which leaves the was-changed
\* condition as it was; the handle of a nil event sends nothing.
C19_OneEventPerWakeup ==
    /\ [][HandleStep
            => /\ SubSeq(wasChangedCh', 1, Len(wasChangedCh)) = wasChangedCh
               /\ IF ntfVal = "none"
                    THEN HandleSent = <<>> /\ UNCHANGED <<wasChanged, hardlink>>
                    ELSE /\ Len(HandleSent) = 1
                         /\ HandleSent[1] = "nil"
                               => /\ ntfVal = "create" /\ archive # 0
                                  /\ hardlink' = archive /\ wasChanged'
                         /\ HandleSent[1] # "nil" => wasChanged' = wasChanged
                         /\ ntfVal \in {"error", "remove"}
                               => HandleSent[1] = "err" /\ hardlink' = hardlink
                         /\ archive = 0 => HandleSent[1] = "err"]_vars
    /\ [][(cfgPc \in {"sendNil", "sendErr"} /\ cfgPc' # cfgPc)
            => /\ cfgPc' = "select"
               /\ wasChangedCh' = Append(wasChangedCh,
                                         IF cfgPc = "sendNil" THEN "nil" ELSE "err")]_vars

\* C19 witness: the removal of the archive found at construction has been
\* reported as an error and the was-changed condition is as the first
\* hardlink left it.
C19_Witness ==
    /\ events = 1 /\ archive = 0 /\ hardlink # 0
    /\ cfgPc = "select" /\ ntfTok = 0 /\ ntfVal = "none"
    /\ wasChangedCh = <<"nil", "err">>
    /\ wasChanged

(* ---- C20 ---- *)
\* the step closes the channel ch
Closes(ch) == ch \notin closedChs /\ ch \in closedChs'

\* the worker is waiting for ever: it has a value to send on the full
\* changed channel of a closed handler, from which nobody can receive
WorkerStuck ==
    /\ ~isOpen
    /\ cfgPc \in {"blocked", "sendNil", "sendErr"}
    /\ Len(wasChangedCh) = DefaultChanBuffSize

ClosedAgain(op) ==
    /\ calls' # calls
    /\ calls' = <<Call(op, FALSE, state.process)>>

\* C21: a second Close() on the activation handler or on the configuration
\* handler changes nothing: no channel is closed, no watcher is stopped and
\* nothing panics.
C21_SecondCloseNoOp ==
    /\ [][ClosedAgain("ActivationClose") \/ ClosedAgain("Close")
            => UNCHANGED <<actVars, cfgVars, ntfVars, fsVars, supPc>>]_vars
    /\ []("panic" \notin actClosed /\ "panic" \notin closedChs)

\* C21 witness: both handlers were closed and Close() was called again on the
\* activation handler, before its worker took notice of the first call.
C21_Witness ==
    /\ calls = <<Call("ActivationClose", FALSE, dead)>>
    /\ ~isOpen
    /\ actPc = "select" /\ "fsnotify" \notin actClosed

(* ---- C22 ---- *)
\* the worker of the activation handler ends a.handle(fw.GetEvent())
ActivationHandleStep == actPc = "wake" /\ actPc' # "wake"

\* the step puts exactly the event e at the end of the handler's output: in
\* the channel or, when it is full, in the waiting send
ActivationEmits(e) ==
    \/ actCh' = Append(actCh, e) /\ actPending' = actPending
    \/ actCh' = actCh /\ actPending = <<>> /\ actPending' = <<e>>

\* C22: the constructor leaves one event {exists(file), no error} in the
\* channel; a wakeup with a non-nil event emits exactly one event, made of
\* the existence of the file at that moment and of the watcher's error; a
\* wakeup with a nil event emits nothing; events are only added at the end
\* of the channel and taken from its front, a waiting send adds its event
\* as it was made.
C22_ActivationEvents ==
    /\ actCh = <<[State |-> actFile, Error |-> FALSE]>>
    /\ [][ActivationHandleStep
            => IF actVal = "none"
                 THEN actCh' = actCh /\ actPending' = actPending
                 ELSE ActivationEmits([State |-> actFile, Error |-> (actVal = "error")])]_vars
    /\ [][(actCh' # actCh \/ actPending' # actPending)
            => \/ actCh # <<>> /\ actCh' = Tail(actCh) /\ actPending' = actPending
               \/ ActivationHandleStep
               \/ /\ actPc = "send"
                  /\ actCh' = Append(actCh, actPending[1])
                  /\ actPending' = <<>>]_vars

\* C22 witness: after the initial event and one emitted event, a wakeup whose
\* event is nil.
C22_Witness ==
    /\ actPc = "wake" /\ actVal = "none"
    /\ Len(actCh) = 2
    /\ actCh[2].State = actFile

(* ---- C23 ---- *)
\* C23: once the activation handler is closed nothing is received through
\* GetWasChangedChannel; its worker, taking the done arm, stops the watcher
\* and leaves the event channel open for ever; the event channel is closed
\* exactly when the worker finds the notification channel closed.
C23_ActivationClose ==
    /\ [][~actIsOpen => /\ Len(actCh') >= Len(actCh)
                        /\ ~ClosedAgain("GetWasChangedChannel")
                        /\ calls' # <<Call("GetWasChangedChannel", TRUE, state.process)>>]_vars
    /\ [][(actPc # "stopped" /\ actPc' = "stopped")
            => /\ ~actIsOpen
               /\ "fsnotify" \in actClosed'
               /\ "wasChanged" \notin actClosed']_vars
    /\ [](actPc = "stopped" => "wasChanged" \notin actClosed)
    /\ []("wasChanged" \in actClosed => actPc = "closed" /\ "notifyCh" \in actClosed)
    /\ [][("notifyCh" \in actClosed /\ actPc = "select" /\ actPc' # "select")
            => \/ actPc' = "closed" /\ "wasChanged" \in actClosed'
               \/ actPc' = "stopped" /\ ~actIsOpen]_vars

\* C23 witness: the handler was closed with an event still in its channel,
\* the worker has stopped the watcher and the watcher has closed its
\* notification channel.
C23_Witness ==
    /\ ~actIsOpen /\ actPc = "stopped"
    /\ "notifyCh" \in actClosed
    /\ actCh # <<>>

(* ---- C24 ---- *)
\* the step is a GetValue call of the consumer
GetValueStep ==
    /\ calls' # <<>> /\ calls'[Len(calls')].op = "GetValue"
    /\ ntfVal' = "none"
    /\ UNCHANGED <<ntfTok, events, closedChs>>

\* C24: Notify is never made to wait by the tokens in the channel, the
\* channel never holds more than one token, a GetValue that follows Notify
\* calls returns the value of the last of them, and a GetValue that follows
\* a GetValue returns nil.
C24_NotifierLatch ==
    /\ [](ntfTok <= NotifyChanCap)
    /\ []("notifyCh" \notin closedChs /\ events < MaxEvents => ENABLED notifierNotify)
    /\ [][GetValueStep
            => LET ret == calls'[Len(calls')].proc IN
               IF calls = <<>> THEN ret = "none"
               ELSE IF LastCall.op = "Notify" THEN ret = LastCall.proc
               ELSE ret = "none"]_vars

\* C24 witness: two Notify calls with different values, then a GetValue that
\* returned the second value, the token of the first Notify still waiting.
C24_Witness ==
    /\ Len(calls) = 3
    /\ calls[1].op = "Notify" /\ calls[2].op = "Notify" /\ calls[1].proc # calls[2].proc
    /\ calls[3] = Call("GetValue", TRUE, calls[2].proc)
    /\ ntfTok = 1 /\ ntfVal = "none"

(* ---- C25 ---- *)
\* C25 (as claimed): Stop() on a notifier that was stopped does not panic and
\* leaves the notification channel closed.
C25_StopTwiceSafe ==
    [][("notifyCh" \in closedChs /\ "panic" \notin closedChs)
            => "panic" \notin closedChs' /\ "notifyCh" \in closedChs']_vars

(* ---- C26 ---- *)
\* the update function returns
ResultStep == cfgPc = "update" /\ cfgPc' = "sent"

\* the modification that leads from the file o to the file n (0: none)
ModificationOf(o, n) ==
    IF o = n THEN 0
    ELSE IF o = 0 THEN Created
    ELSE IF n = 0 THEN Deleted
    ELSE Modified

\* C26: an update that ends without error leaves in the old-config dir
\* exactly the archive's files, and its map holds for every name the
\* modification that leads from the old file to the archive's file and
\* nothing for a name whose two files are equal; such a file is not moved (it
\* is still in the staging dir).
C26_TarredUpdateResult ==
    [][(ResultStep /\ ~updErr)
        => /\ oldDir = Configs[hardlink]
           /\ \A f \in Files :
                /\ changedFiles[f] = ModificationOf(oldBefore[f], Configs[hardlink][f])
                /\ (oldBefore[f] # 0 /\ oldBefore[f] = Configs[hardlink][f])
                      => newDir[f] = oldBefore[f]
           /\ updateResultCh' =
                Append(updateResultCh, [ChangedFiles |-> changedFiles, Err |-> FALSE])]_vars

\* C26 witness: an update without error is about to return after it deleted
\* one file and replaced the other.
C26_Witness ==
    /\ cfgPc = "update" /\ ~updErr /\ todo = {}
    /\ changedFiles = [fa |-> Deleted, fb |-> Modified]

(* ---- C27 ---- *)
\* C27: once an operation of the update failed nothing is moved or deleted
\* any more and the next step of the update returns the error with the map;
\* the map of a running update holds exactly the modifications made to the
\* old-config dir so far; an update that fails before its loop has not
\* touched the old-config dir and has an empty map.
C27_TarredUpdateAbort ==
    /\ [][(cfgPc = "update" /\ updErr)
            => /\ UNCHANGED <<oldDir, newDir>>
               /\ IF cfgPc' = cfgPc
                    THEN UNCHANGED changedFiles
                    ELSE /\ cfgPc' = "sent"
                         /\ updateResultCh' =
                              Append(updateResultCh,
                                     [ChangedFiles |-> changedFiles, Err |-> TRUE])]_vars
    /\ [](cfgPc = "update"
            => \A f \in Files : changedFiles[f] = ModificationOf(oldBefore[f], oldDir[f]))
    /\ [][(cfgPc = "select" /\ cfgPc' = "update" /\ updErr')
            => oldDir' = oldDir /\ changedFiles' = NoChanges /\ todo' = {}]_vars

\* C27 witness: the update failed on its second file after it had modified
\* the first.
C27_Witness ==
    /\ cfgPc = "update" /\ updErr
    /\ MapLen(changedFiles) = 1
    /\ oldDir # oldBefore /\ oldDir # Configs[hardlink]

(* ---- C28 ---- *)
\* C28: an update without error of an old-config dir that holds exactly the
\* files of the archive returns an empty map and leaves the old-config dir
\* as it found it.
C28_SameArchiveTwice ==
    [][(ResultStep /\ ~updErr /\ oldBefore = Configs[hardlink])
        => /\ changedFiles = NoChanges
           /\ oldDir = oldBefore
           /\ updateResultCh' =
                Append(updateResultCh, [ChangedFiles |-> NoChanges, Err |-> FALSE])]_vars

\* C28 witness: after the archive arrived again, the second update without
\* error of the same archive is about to return.
C28_Witness ==
    /\ cfgPc = "update" /\ ~updErr /\ todo = {}
    /\ hardlink # 0 /\ oldBefore = Configs[hardlink]
    /\ events > 0 /\ archive = hardlink

(* ---- C29 ---- *)
Triple(a, c, p) == [activation |-> a, configuration |-> c, process |-> p]

\* a step of another goroutine or of the environment leaves the
\* supervisor's triple, flag, counter and issued calls alone
SupervisorFrame ==
    supPc' = supPc => UNCHANGED <<state, wasConfigChanged, configUpdatesRunning, calls>>

\* the step is handleStatusChange requesting an update from (a, changed, p)
\* with no update in flight: one Update call and nothing else, and once the
\* call has returned the triple is (a, notReady, p) and the counter is 1
UpdateRequested(a, p) ==
    /\ (DecisionStepAt(a, changed, p) /\ configUpdatesRunning = 0)
          => /\ CallOps(calls') = <<"Update">>
             /\ UNCHANGED wasConfigChanged
             /\ IF supPc' = "updateStore"
                  THEN UNCHANGED <<state, configUpdatesRunning>>
                  ELSE state' = Triple(a, notReady, p) /\ configUpdatesRunning' = 1
    /\ (supPc = "updateStore" /\ supPc' # supPc
          /\ state = Triple(a, changed, p) /\ configUpdatesRunning = 0)
          => /\ state' = Triple(a, notReady, p) /\ configUpdatesRunning' = 1
             /\ UNCHANGED <<calls, wasConfigChanged>>

\* the step receives an error-free update result reporting changed files at
\* (a, notReady, p) with one update in flight: (a, updated, p), flag set,
\* counter 0
UpdateCommitted(a, p) ==
    (/\ EventStep(updateResultCh, updateResultCh')
     /\ ~Head(updateResultCh).Err /\ MapLen(Head(updateResultCh).ChangedFiles) > 0
     /\ state = Triple(a, notReady, p) /\ configUpdatesRunning = 1)
        => /\ state' = Triple(a, updated, p)
           /\ wasConfigChanged' /\ configUpdatesRunning' = 0
           /\ UNCHANGED calls

\* the step receives an error-free started event at (active, updated,
\* changing) with the flag set: (active, applied, alive), flag cleared
StartCommitted ==
    (/\ EventStep(startedCh, startedCh') /\ Head(startedCh) = "nil"
     /\ state = Triple(active, updated, changing)
     /\ wasConfigChanged /\ configUpdatesRunning = 0)
        => /\ state' = Triple(active, applied, alive)
           /\ ~wasConfigChanged' /\ configUpdatesRunning' = 0
           /\ UNCHANGED calls

\* C29: scenario "config update while running".  From (active, applied,
\* alive) with no update in flight a changed event gives (active, changed,
\* alive); the supervisor then issues exactly one Update and holds (active,
\* notReady, alive) with the counter at 1; an error-free result reporting at
\* least one changed file gives (active, updated, alive) with the flag set
\* and the counter 0; the supervisor then issues, when the kill and the
\* construction succeed, one Kill followed by one Start and holds (active,
\* updated, changing); the error-free started event gives (active, applied,
\* alive) with wasConfigChanged = FALSE and configUpdatesRunning = 0.  Steps
\* in between that are not the supervisor's change none of this.
C29_UpdateWhileRunning ==
    [][/\ SupervisorFrame
       /\ (/\ EventStep(wasChangedCh, wasChangedCh') /\ Head(wasChangedCh) = "nil"
           /\ state = Triple(active, applied, alive) /\ configUpdatesRunning = 0)
             => /\ state' = Triple(active, changed, alive)
                /\ UNCHANGED <<wasConfigChanged, configUpdatesRunning, calls>>
       /\ UpdateRequested(active, alive)
       /\ UpdateCommitted(active, alive)
       /\ (/\ DecisionStepAt(active, updated, alive)
           /\ \A i \in DOMAIN calls' : calls'[i].ok)
             => /\ CallOps(calls') = <<"Kill", "NewProcessHandler", "Start">>
                /\ state' = Triple(active, updated, changing)
                /\ UNCHANGED <<wasConfigChanged, configUpdatesRunning>>
       /\ StartCommitted]_vars

\* C29 witness: the scenario has run to its end: the last decision was the
\* restart of a running payload, and its started event has been handled
C29_Witness ==
    /\ supPc = "handle"
    /\ state = Triple(active, applied, alive)
    /\ CallOps(calls) = <<"Kill", "NewProcessHandler", "Start">>
    /\ \A i \in DOMAIN calls : calls[i].ok
    /\ ~wasConfigChanged /\ configUpdatesRunning = 0

(* ---- C30 ---- *)
\* C30: scenario "config arrives then activate".  The program starts at
\* (inactive, notReady, dead) with the flag clear, the counter 0 and nothing
\* issued.  A changed event gives (inactive, changed, dead); the supervisor
\* then issues exactly one Update and holds (inactive, notReady, dead) with
\* the counter at 1; an error-free result reporting created files gives
\* (inactive, updated, dead) with the flag set and the counter 0; while
\* activation is inactive no decision constructs or starts a process, and at
\* (inactive, updated, dead) the decision issues nothing; the activation
\* event with state active gives (active, updated, dead); the supervisor
\* then issues, when the construction succeeds, exactly one Start and holds
\* (active, updated, changing); the error-free started event gives (active,
\* applied, alive) with wasConfigChanged = FALSE.  Steps in between that
\* are not the supervisor's change none of this.
C30_ConfigThenActivate ==
    /\ state = Triple(inactive, notReady, dead)
    /\ ~wasConfigChanged /\ configUpdatesRunning = 0 /\ calls = <<>>
    /\ [][/\ SupervisorFrame
          /\ (/\ EventStep(wasChangedCh, wasChangedCh') /\ Head(wasChangedCh) = "nil"
              /\ state = Triple(inactive, notReady, dead) /\ configUpdatesRunning = 0)
                => /\ state' = Triple(inactive, changed, dead)
                   /\ UNCHANGED <<wasConfigChanged, configUpdatesRunning, calls>>
          /\ UpdateRequested(inactive, dead)
          /\ (/\ EventStep(updateResultCh, updateResultCh')
              /\ ~Head(updateResultCh).Err
              /\ \E f \in Files : Head(updateResultCh).ChangedFiles[f] = Created
              /\ state = Triple(inactive, notReady, dead) /\ configUpdatesRunning = 1)
                => /\ state' = Triple(inactive, updated, dead)
                   /\ wasConfigChanged' /\ configUpdatesRunning' = 0
                   /\ UNCHANGED calls
          /\ (DecisionStep /\ state.activation = inactive)
                => /\ ~Issues(calls', "NewProcessHandler") /\ ~Issues(calls', "Start")
                   /\ state.process = dead => calls' \in {<<>>} \cup
                          {<<Call("Update", ok, dead)>> : ok \in BOOLEAN}
          /\ DecisionStepAt(inactive, updated, dead)
                => calls' = <<>> /\ UNCHANGED <<state, wasConfigChanged, configUpdatesRunning>>
          /\ (/\ EventStep(actCh, actCh')
              /\ Head(actCh) = [State |-> active, Error |-> FALSE]
              /\ state = Triple(inactive, updated, dead))
                => /\ state' = Triple(active, updated, dead)
                   /\ UNCHANGED <<wasConfigChanged, configUpdatesRunning, calls>>
          /\ (/\ DecisionStepAt(active, updated, dead)
              /\ \A i \in DOMAIN calls' : calls'[i].ok)
                => /\ CallOps(calls') = <<"NewProcessHandler", "Start">>
                   /\ state' = Triple(active, updated, changing)
                   /\ UNCHANGED <<wasConfigChanged, configUpdatesRunning>>
          /\ StartCommitted]_vars

\* C30 witness: the configuration was extracted while inactive (the last
\* decision before the activation event issued nothing), then the payload
\* was started once and its started event has been handled
C30_Witness ==
    /\ supPc = "handle"
    /\ state = Triple(active, applied, alive)
    /\ calls = <<Call("NewProcessHandler", TRUE, dead), Call("Start", TRUE, dead)>>
    /\ ~wasConfigChanged /\ configUpdatesRunning = 0
    /\ actFile /\ actCh = <<>>
    /\ archive = hardlink /\ oldDir # NoFiles

(* ---- C33 ---- *)
\* C33: the step that applies an error-free update result takes exactly one
\* from configUpdatesRunning, sets wasConfigChanged when the result lists a
\* changed file and leaves it as it was otherwise, and changes nothing of
\* the triple but configuration, which changes only when the counter has
\* come to 0: to updated when wasConfigChanged is then true, to applied
\* otherwise.
C33_ApplyUpdateResult ==
    [][(EventStep(updateResultCh, updateResultCh') /\ ~Head(updateResultCh).Err)
         => /\ configUpdatesRunning' = configUpdatesRunning - 1
            /\ wasConfigChanged' = IF MapLen(Head(updateResultCh).ChangedFiles) > 0
                                     THEN TRUE ELSE wasConfigChanged
            /\ state' = IF configUpdatesRunning' = 0
                          THEN [state EXCEPT !.configuration =
                                   IF wasConfigChanged' THEN updated ELSE applied]
                          ELSE state]_vars

\* C33 witness: the result of an update requested while the payload was
\* alive listed no file and brought the counter to 0: configuration went
\* from notReady to applied
C33_Witness ==
    /\ supPc = "handle"
    /\ CallOps(calls) = <<"Update">> /\ calls[1].ok
    /\ state = Triple(active, applied, alive)
    /\ configUpdatesRunning = 0 /\ ~wasConfigChanged
    /\ updateResultCh = <<>>

(* -------------- the process handler under any single caller ----------- *)
\* The caller constructs a handler, starts it once (as Entrypoint.start
\* does), signals it and receives from its two channels in any order; it
\* constructs the next handler when the child of the current one is gone.

\* newCmdProcessHandler: a handler with fresh channels, or nil and an error
processClientNew ==
    /\ supPc = "event"
    /\ ~Living(child)
    /\ \E ok \in CtorResults :
        /\ events' = IF ok THEN events ELSE events + 1
        /\ process' = IF ok THEN "ok" ELSE "nil"
        /\ calls' = <<Call("NewProcessHandler", ok, state.process)>>
    /\ child' = "idle"
    /\ startedCh' = <<>>
    /\ endedCh' = <<>>
    /\ UNCHANGED <<state, wasConfigChanged, configUpdatesRunning, supPc, orphans, cfgVars,
                   ntfVars, fsVars, actVars, hist>>

\* p.Start(): the goroutine is created
processClientStart ==
    /\ supPc = "event" /\ process = "ok"
    /\ child = "idle"
    /\ child' = "starting"
    /\ calls' = <<Call("Start", TRUE, state.process)>>
    /\ UNCHANGED <<state, wasConfigChanged, configUpdatesRunning, supPc, process, startedCh,
                   endedCh, orphans, cfgVars, ntfVars, fsVars, actVars, envVars, hist>>

\* p.Kill() or p.Stop(): Signal(SIGKILL) or Signal(SIGTERM)
processClientSignal ==
    /\ supPc = "event" /\ process = "ok"
    /\ \E op \in {"Kill", "Stop"} : \E k \in SignalResults(child) :
        /\ calls' = <<Call(op, k, state.process)>>
        /\ child' = IF k THEN "killed" ELSE child
    /\ UNCHANGED <<state, wasConfigChanged, configUpdatesRunning, supPc, process, startedCh,
                   endedCh, orphans, cfgVars, ntfVars, fsVars, actVars, envVars, hist>>

\* <-p.GetStartedChannel()
processClientStarted ==
    /\ supPc = "event" /\ process = "ok"
    /\ startedCh # <<>>
    /\ startedCh' = Tail(startedCh)
    /\ calls' = <<Call("GetStartedChannel", Head(startedCh) = "nil", state.process)>>
    /\ UNCHANGED <<state, wasConfigChanged, configUpdatesRunning, supPc, process, child,
                   endedCh, orphans, cfgVars, ntfVars, fsVars, actVars, envVars, hist>>

\* <-p.GetEndedChannel()
processClientEnded ==
    /\ supPc = "event" /\ process = "ok"
    /\ endedCh # <<>>
    /\ endedCh' = Tail(endedCh)
    /\ calls' = <<Call("GetEndedChannel", Head(endedCh) = "nil", state.process)>>
    /\ UNCHANGED <<state, wasConfigChanged, configUpdatesRunning, supPc, process, child,
                   startedCh, orphans, cfgVars, ntfVars, fsVars, actVars, envVars, hist>>

NextProcess ==
    \/ processClientNew
    \/ processClientStart
    \/ processClientSignal
    \/ processClientStarted
    \/ processClientEnded
    \/ cmdStart
    \/ cmdWait

SpecProcess == Init /\ [][NextProcess]_vars

\* the goroutine of Start is scheduled
SpecProcessFair == SpecProcess /\ WF_vars(cmdStart)

(* ---- C34 ---- *)
\* C34: for each process handler, the goroutine of Start sends one started
\* event (nil exactly when the child was spawned) and, once created, does
\* send it; an ended event is sent once, by a child that was spawned, hence
\* after the started event; a handler whose start failed, or whose child
\* has exited, sends nothing more; Kill or Stop on a handler that was never
\* started returns an error and signals nothing.
C34_ProcessEvents ==
    /\ [][Len(startedCh') > Len(startedCh)
            => /\ child = "starting" /\ child' \in {"running", "failed"}
               /\ startedCh = <<>>
               /\ startedCh' = <<IF child' = "running" THEN "nil" ELSE "err">>]_vars
    /\ [][(child' # child /\ child' \in {"running", "failed"})
            => child = "starting" /\ Len(startedCh') = Len(startedCh) + 1]_vars
    /\ [][Len(endedCh') > Len(endedCh)
            => /\ child \in {"running", "killed"} /\ child' = "exited"
               /\ endedCh = <<>> /\ Len(endedCh') = 1]_vars
    /\ [][(child' # child /\ child' = "killed") => child = "running"]_vars
    /\ [][(child \in {"failed", "exited"} /\ ~processClientNew)
            => /\ child' = child
               /\ Len(startedCh') <= Len(startedCh)
               /\ Len(endedCh') <= Len(endedCh)]_vars
    /\ [](child = "failed" => endedCh = <<>>)
    /\ [][(processClientSignal /\ child = "idle")
            => ~calls'[1].ok /\ UNCHANGED <<child, startedCh, endedCh>>]_vars
    /\ (child = "starting") ~> (child \in {"running", "failed"})

\* C34 witness: the caller has received the started event and, after a
\* signal, the ended event of the child; both channels are empty again
C34_Witness ==
    /\ calls = <<Call("GetEndedChannel", FALSE, state.process)>>
    /\ child = "exited"
    /\ startedCh = <<>> /\ endedCh = <<>>

(* ---- C36 ---- *)
\* C36: isUpdateRunning is true only while an accepted update has not
\* completed (its request waits for the worker, its function runs, or the
\* worker has not yet cleared the flags after sending the result), whatever
\* the order of the steps of Update() and of the worker; so an Update()
\* called on an open handler after a successful changed event, with no
\* request waiting, no update running and no result unread, is accepted.
C36_FlagOnlyWhileUpdating ==
    /\ []((supPc = "event" /\ isUpdateRunning)
            => (updateStartCh > 0 \/ cfgPc \in {"update", "sent"}))
    /\ [][(/\ UpdateCallStep
           /\ isOpen /\ wasChanged /\ hist = "none"
           /\ cfgPc \in {"select", "wake", "sendNil", "sendErr"}
           /\ updateStartCh = 0 /\ updateResultCh = <<>>)
            => calls'[1].ok]_vars

(* --------- the event notifier under a consumer that follows it -------- *)
\* The producer calls Notify; the consumer is a worker's loop (as in
\* listenToEvents and listenActivationChanges): it receives a token (wake)
\* and then calls GetValue.  calls is the history kept by notifierNotify.

\* fw.GetEvent() of the loop, i.e. GetValue() right after a token was received
consumerGetValue ==
    /\ cfgPc = "wake"
    /\ cfgPc' = "select"
    /\ ntfVal' = "none"
    /\ calls' = IF calls # <<>> /\ LastCall.op = "Notify"
                  THEN Append(calls, Call("GetValue", ntfVal # "none", ntfVal))
                  ELSE IF calls = <<>>
                  THEN <<Call("GetValue", ntfVal # "none", ntfVal)>>
                  ELSE [calls EXCEPT ![Len(calls)] =
                            Call("GetValue", ntfVal # "none", ntfVal)]
    /\ UNCHANGED <<state, wasConfigChanged, configUpdatesRunning, supPc, procVars,
                   isOpen, closedChs, wasChanged, isUpdateRunning, wasChangedCh,
                   updateStartCh, updateResultCh, todo, changedFiles, updErr,
                   ntfTok, fsVars, actVars, envVars, hist>>

NextConsumer ==
    \/ notifierNotify
    \/ wake
    \/ consumerGetValue

SpecConsumer == Init /\ [][NextConsumer]_vars

\* the consumer's goroutine is scheduled
SpecConsumerFair == SpecConsumer /\ WF_vars(wake) /\ WF_vars(consumerGetValue)

Children == orphans + (IF child \in {"running", "killed"} THEN 1 ELSE 0)

\* C39: at most one payload process exists in every reachable state, and a
\* decision step that calls Start leaves no earlier child that has not
\* exited.
C39_AtMostOneChild ==
    /\ [](Children <= 1)
    /\ [][(DecisionStep /\ Issues(calls', "Start")) => orphans' = 0]_vars

(* ---- C40 ---- *)
\* C40: a start gives the supervisor a handler with empty channels; process
\* becomes alive only by the nil started event of the current handler, whose
\* child was spawned, and dead only by the ended event of the current
\* handler, whose child has exited; the exit of the child of a replaced
\* handler changes no channel of the current handler and nothing of the
\* supervisor, so it causes no decision and no start.
C40_OnlyCurrentChildEvents ==
    /\ [][(DecisionStep /\ Issues(calls', "NewProcessHandler"))
            => startedCh' = <<>> /\ endedCh' = <<>>]_vars
    /\ [][(state'.process = alive /\ state.process # alive)
            => /\ EventStep(startedCh, startedCh') /\ Head(startedCh) = "nil"
               /\ child \in {"running", "killed", "exited"}]_vars
    /\ [][(state'.process = dead /\ state.process # dead)
            => EventStep(endedCh, endedCh') /\ child = "exited"]_vars
    /\ [][orphans' < orphans
            => UNCHANGED <<supVars, process, child, startedCh, endedCh>>]_vars

\* C40 witness: after a restart the killed predecessor has exited and the
\* started event of the successor has been applied: process is alive
C40_Witness ==
    /\ supPc = "handle"
    /\ CallOps(calls) = <<"Kill", "NewProcessHandler", "Start">>
    /\ state.process = alive
    /\ child = "running" /\ orphans = 0
    /\ startedCh = <<>> /\ endedCh = <<>>

(* ---- C35 ---- *)
\* an event that takes the process axis out of changing is in a channel of
\* the current handler, or its goroutine or child is still to send one
ConfirmationAhead ==
    \/ child \in {"starting", "running", "killed"}
    \/ startedCh # <<>> /\ Head(startedCh) = "nil"
    \/ endedCh # <<>>

\* C35: while main runs with a process handler and process = changing, the
\* event that ends changing is still ahead: the supervisor is never left in
\* changing with nothing to come from the handler it started, also after a
\* started event that carried an error.
C35_ChangingIsTransient ==
    (supPc # "panicked" /\ process = "ok" /\ state.process = changing)
        => ConfirmationAhead

(* ------ the program when the activation watcher reports no error ------ *)
NextSound ==
    \/ changeStateByEvent
    \/ handleStatusChange
    \/ cmdStart
    \/ cmdWait
    \/ orphanExit
    \/ archiveMovedIn
    \/ archiveRemoved
    \/ watcherError
    \/ watcherStopped
    \/ listenToEvents
    \/ activationFileToggled
    \/ activationWatcherStopped
    \/ activationWake
    \/ activationHandle
    \/ activationHandleSend
    \/ activationDone

SpecSound == Init /\ [][NextSound]_vars

\* the worker of the activation handler and main are scheduled, and the
\* select of main, which picks at random among the channels that are ready,
\* does not pass over the activation channel for ever
SpecSoundFair ==
    /\ SpecSound
    /\ WF_vars(activationWake) /\ WF_vars(activationHandle) /\ WF_vars(activationHandleSend)
    /\ WF_vars(handleStatusChange) /\ WF_vars(changeStateByEventPanic)
    /\ SF_vars(activationWasChanged)

(* ---- C38 ---- *)
\* the activation handler has nothing left to do: no token, no value, its
\* worker at the select and no send waiting
ActivationSettled ==
    actTok = 0 /\ actVal = "none" /\ actPc = "select" /\ actPending = <<>>

\* C38: while main runs and the watcher reports no error, whenever the
\* activation handler has settled the last event it emitted carries the
\* file's existence: it is the last one in the channel or, when the
\* supervisor has taken them all, the activation of the triple; and once the
\* file has stopped changing the activation of the triple comes to equal the
\* file's existence and stays so.
C38_ActivationConverges ==
    /\ []((supPc # "panicked" /\ ActivationSettled)
            => IF actCh # <<>>
                 THEN actCh[Len(actCh)] = [State |-> actFile, Error |-> FALSE]
                 ELSE state.activation = actFile)
    /\ <>[](supPc # "panicked" => state.activation = actFile)

\* C38 witness: a creation and a removal (or the reverse) were collapsed
\* into one wakeup: the event it produced carries the same state as the
\* event before it, which is the file's existence
C38_Witness ==
    /\ supPc # "panicked" /\ ActivationSettled
    /\ Len(actCh) = 2
    /\ actCh[1].State = actCh[2].State
    /\ actCh[2].State = actFile
    /\ events = 2

(* -------------- the program when its goroutines are scheduled --------- *)
\* Weak fairness of main (its select takes an event when one is ready, and
\* it panics when e.process is nil), of the two workers, of the watcher
\* goroutines that end and of the goroutine of Start.  The environment (new
\* archives, the activation file, failures, the exit of a child) owes nothing.
SpecFair ==
    /\ Spec
    /\ WF_vars(changeStateByEvent) /\ WF_vars(handleStatusChange)
    /\ WF_vars(listenToEvents)
    /\ WF_vars(activationWake) /\ WF_vars(activationHandle)
    /\ WF_vars(activationHandleSend) /\ WF_vars(activationDone)
    /\ WF_vars(cmdStart)
    /\ WF_vars(watcherStopped) /\ WF_vars(activationWatcherStopped)

(* ---- C31 ---- *)
\* the supervisor is about to receive an update result with / without error
ErrorResultAhead == updateResultCh # <<>> /\ Head(updateResultCh).Err
GoodResultAhead == updateResultCh # <<>> /\ ~Head(updateResultCh).Err

\* C31: once an update result carrying an error has been delivered, every
\* later update that succeeds is followed by a state in which configuration
\* is updated or applied (unless main has panicked): the supervisor does not
\* stay in notReady.
C31_SelfHealing ==
    [](ErrorResultAhead
        => [](GoodResultAhead
                => <>(state.configuration \in {updated, applied} \/ supPc = "panicked")))

(* ---- C32 ---- *)
\* the result of an update run that moved or deleted files in the old-config
\* dir is delivered while the payload, spawned before that run, is alive
StalePayload ==
    /\ updateResultCh # <<>> /\ MapLen(Head(updateResultCh).ChangedFiles) > 0
    /\ state.process = alive /\ child = "running"

\* C32: whenever an update run has changed files under a payload that is
\* alive, then, unless activation leaves active, that payload is killed (and
\* a new one started) or ends: the child of that moment does not go on
\* running for ever.
C32_StalePayloadRestarted ==
    StalePayload ~> (child # "running" \/ state.activation = inactive)

====
